---------------------------- MODULE Spec2Model ----------------------------
(***************************************************************************)
(* Model of the structured extraction pipeline of pdf-concept-tagger:      *)
(*   - LinkExtractor (link_extractor.py): pattern-based triple extraction, *)
(*     schema-constrained extraction, contradiction and duplicate          *)
(*     resolution;                                                         *)
(*   - TaxonomyBuilder (taxonomy_builder.py): clustering, candidate pairs, *)
(*     batched relation proposal, evidence filter;                         *)
(*   - StructuredExtractionPipeline (structured_extraction_pipeline.py):   *)
(*     the staged run, the validation pass, the confidence summary;        *)
(*   - POST /analyze (app/api/v1/endpoints/analyze.py): the response       *)
(*     stream of one request and the document record it writes.            *)
(*                                                                         *)
(* Conventions.  Python strings are sequences of one-character strings.    *)
(* Character offsets are Python's (0-based, end exclusive).  Confidences   *)
(* are in tenths (0.6 is 6).  A Python dict is the sequence of its values  *)
(* in key-insertion order.                                                 *)
(*                                                                         *)
(* The module holds one state machine per component; a run of one          *)
(* component leaves the variables of the others idle.                      *)
(***************************************************************************)
EXTENDS Integers, Sequences, FiniteSets, TLC

VARIABLES
    \* ---- resolution passes applied to an arbitrary edge list
    r_pc,           \* "idle" | "input" | "contradictions" | "duplicates" | ...
    edges,          \* the list handed to the pass
    resolved_edges, \* what the first pass returned
    resolved_again  \* what the second pass returned on resolved_edges

resolveVars == <<r_pc, edges, resolved_edges, resolved_again>>

VARIABLES
    \* ---- one call of LinkExtractor.extract_links
    l_pc,             \* "idle" | "start" | "openie" | "merged" | "done" | "raised"
    document_text,    \* the text the tree's offsets refer to
    document_tree,    \* argument: list of DocumentTreeNode
    concept_registry, \* argument: list of ConceptRegistry
    use_openie,       \* argument
    use_llm,          \* argument
    llm_batch,        \* number of node batches already sent to the LLM
    llm_responses,    \* what the LLM answered, one entry per batch
    kg_edges,         \* extract_llm_relations' accumulator
    all_edges,        \* extract_links' accumulator
    returned_edges    \* what extract_links returned

linkVars == <<l_pc, document_text, document_tree, concept_registry, use_openie,
              use_llm, llm_batch, llm_responses, kg_edges, all_edges,
              returned_edges>>

VARIABLES
    \* ---- one call of TaxonomyBuilder.build_taxonomy
    t_pc,               \* "idle" | "start" | "clustered" | "proposing" | "done" | "raised"
    taxonomy_registry,  \* argument concept_registry: the canonical ids, in order
    seed_taxonomy,      \* argument
    require_evidence,   \* argument
    clusters,           \* cluster_concepts' dict: [label, ids] per key, in insertion order
    concept_pairs,      \* the candidate pairs
    pair_batch,         \* number of pair batches already sent to the LLM
    taxonomy_responses, \* what the LLM answered, one entry per batch
    taxonomy_prompts,   \* the pairs listed in each prompt sent to the LLM
    taxonomy_edges,     \* propose_taxonomy_relations' accumulator
    returned_taxonomy,  \* what build_taxonomy returned
    failed_batch,       \* the batch (from 1) whose LLM call raised, 0 if none
    validation_errors   \* the diagnostics the run has recorded

taxonomyVars == <<t_pc, taxonomy_registry, seed_taxonomy, require_evidence,
                  clusters, concept_pairs, pair_batch, taxonomy_responses,
                  taxonomy_prompts, taxonomy_edges, returned_taxonomy, failed_batch,
                  validation_errors>>

VARIABLES
    \* ---- one call of StructuredExtractionPipeline.run_pipeline
    p_pc,                 \* "idle" | "start" | "tree" | "concepts" | "taxonomy" |
                          \* "links" | "created" | "validated" | "done" | "raised"
    pipeline_require_evidence, \* self.require_evidence
    min_confidence,       \* self.min_confidence, in tenths
    validate_schema,      \* self.validate_schema
    run_document_tree,    \* local document_tree
    run_concept_registry, \* local concept_registry
    run_taxonomy_edges,   \* local taxonomy_edges
    run_kg_edges,         \* local kg_edges
    stage_input,          \* the concept registry the taxonomy and the link stage were called with
    failed_stage,         \* the stage whose await raised, "" if none
    output                \* the ExtractionPipelineOutput

pipelineVars == <<p_pc, pipeline_require_evidence, min_confidence,
                  validate_schema, run_document_tree, run_concept_registry,
                  run_taxonomy_edges, run_kg_edges, stage_input, failed_stage,
                  output>>

VARIABLES
    \* ---- one POST /analyze request: analyze_pdf and its response stream
    a_pc,            \* "idle" | "start" | "saved" | "streaming" | "extracting" |
                     \* "storing" | "extracted" | "ended"
    input_kind,      \* "image" | "file" | "none"
    document_status, \* "absent" or Document.status of the request's record
    page_text,       \* what PDFProcessor.extract_page_text returned
    concepts_data,   \* what the LLM returned
    stored_concepts, \* the Concept rows added to the session
    committed,       \* the rows and the status the database holds
    packets,         \* the lines the response stream has yielded
    llm_failed,      \* the LLM call of the request raised
    http_status      \* status code of the response

analyzeVars == <<a_pc, input_kind, document_status, page_text, concepts_data,
                 stored_concepts, committed, packets, llm_failed, http_status>>

VARIABLES
    \* ---- the websocket ConnectionManager, for one document id
    b_pc,           \* broadcast_to_document: "idle" | "ready" | "sending" |
                    \* "returned" | "raised"
    socket_state,   \* per WebSocket: "new" | "accepting" | "open" | "closed"
    has_entry,      \* document_id in self.active_connections
    connections,    \* self.active_connections[document_id], {} without entry
    iterated_live,  \* the set the broadcast iterates is still the dict's entry
    iter_used,      \* size of the set when the for loop made its iterator
    to_visit,       \* members the iterator has not reached yet
    sending_to,     \* the connection whose send_json is awaited, 0 if none
    attempted,      \* connections the broadcast called send_json on
    disconnected,   \* the local set "disconnected"
    registered,     \* the set's members when the broadcast was called
    broadcasts      \* number of broadcast_to_document calls so far

connectionVars == <<b_pc, socket_state, has_entry, connections, iterated_live,
                    iter_used, to_visit, sending_to, attempted, disconnected,
                    registered, broadcasts>>

VARIABLES
    \* ---- the experiment server's provider selection
    e_pc,            \* "idle" | "serving"
    env_provider,    \* os.getenv("LLM_PROVIDER", "openai") at import
    LLM_PROVIDER,    \* the module's global
    api_keys,        \* the providers whose API key is set in the environment
    model_env,       \* the providers whose <PROVIDER>_MODEL switch_model has set
    provider_before, \* LLM_PROVIDER when the last request arrived
    last_request,    \* the last request: endpoint and the provider it named
    last_response,   \* its answer: HTTP status, error or not, provider reported
    requests         \* number of requests so far

experimentVars == <<e_pc, env_provider, LLM_PROVIDER, api_keys, model_env,
                    provider_before, last_request, last_response, requests>>

vars == <<resolveVars, linkVars, taxonomyVars, pipelineVars, analyzeVars,
          connectionVars, experimentVars>>

notResolveVars == <<linkVars, taxonomyVars, pipelineVars, analyzeVars,
    connectionVars, experimentVars>>
notLinkVars == <<resolveVars, taxonomyVars, pipelineVars, analyzeVars,
    connectionVars, experimentVars>>
notTaxonomyVars == <<resolveVars, linkVars, pipelineVars, analyzeVars,
    connectionVars, experimentVars>>
notPipelineVars == <<resolveVars, linkVars, taxonomyVars, analyzeVars,
    connectionVars, experimentVars>>
notAnalyzeVars == <<resolveVars, linkVars, taxonomyVars, pipelineVars,
    connectionVars, experimentVars>>
notConnectionVars == <<resolveVars, linkVars, taxonomyVars, pipelineVars,
    analyzeVars, experimentVars>>
notExperimentVars == <<resolveVars, linkVars, taxonomyVars, pipelineVars,
    analyzeVars, connectionVars>>

(***************************************************************************)
(* Bounds of the model                                                     *)
(***************************************************************************)
MaxEdges == 3
MaxPhrases == 2
MaxConcepts == 7

(***************************************************************************)
(* Sequence helpers                                                        *)
(***************************************************************************)
Range(s) == {s[i] : i \in 1..Len(s)}

RECURSIVE Flatten(_)
Flatten(ss) == IF ss = <<>> THEN <<>> ELSE Head(ss) \o Flatten(Tail(ss))

Reverse(s) == [i \in 1..Len(s) |-> s[Len(s) + 1 - i]]

SeqsUpTo(S, n) == UNION {[1..k -> S] : k \in 0..n}

(***************************************************************************)
(* LinkExtractor._resolve_contradictions                                   *)
(***************************************************************************)
PairKey(edge) == <<edge.source_id, edge.target_id>>

\* edge_groups after the grouping loop: the groups in key-insertion order,
\* each group in arrival order.
RECURSIVE GroupByPair(_, _, _)
GroupByPair(es, i, edge_groups) ==
    IF i > Len(es) THEN edge_groups
    ELSE LET edge == es[i]
             at == {k \in 1..Len(edge_groups) : PairKey(edge_groups[k][1]) = PairKey(edge)}
         IN  IF at = {}
             THEN GroupByPair(es, i + 1, Append(edge_groups, <<edge>>))
             ELSE LET k == CHOOSE k \in at : TRUE
                  IN  GroupByPair(es, i + 1,
                                  [edge_groups EXCEPT ![k] = Append(@, edge)])

\* A bug that keeps the last maximal element.
MaxByConfidenceLast(group_edges) ==
    LET k == CHOOSE k \in 1..Len(group_edges) :
                 /\ \A j \in 1..Len(group_edges) :
                        group_edges[j].confidence <= group_edges[k].confidence
                 /\ \A j \in (k + 1)..Len(group_edges) :
                        group_edges[j].confidence < group_edges[k].confidence
    IN  group_edges[k]

\* max(group_edges, key=lambda e: e.confidence): the first maximal element.
MaxByConfidence(group_edges) ==
    LET k == CHOOSE k \in 1..Len(group_edges) :
                 /\ \A j \in 1..Len(group_edges) :
                        group_edges[j].confidence <= group_edges[k].confidence
                 /\ \A j \in 1..(k - 1) :
                        group_edges[j].confidence < group_edges[k].confidence
    IN  group_edges[k]

\* A bug that discards the weakest edge of a contradictory group instead of
\* keeping the strongest.
DropWeakest(group_edges) ==
    LET k == CHOOSE k \in 1..Len(group_edges) :
                 /\ \A j \in 1..Len(group_edges) :
                        group_edges[j].confidence >= group_edges[k].confidence
                 /\ \A j \in 1..(k - 1) :
                        group_edges[j].confidence > group_edges[k].confidence
    IN  [i \in 1..(Len(group_edges) - 1) |->
            IF i < k THEN group_edges[i] ELSE group_edges[i + 1]]

\* len(set(predicates)) > 1
Contradictory(group_edges) ==
    Cardinality({group_edges[j].predicate : j \in 1..Len(group_edges)}) > 1

ResolveGroupDropWeakest(group_edges) ==
    IF Contradictory(group_edges) THEN DropWeakest(group_edges) ELSE group_edges

\* A bug that takes min where max is meant.
MinByConfidence(group_edges) ==
    LET k == CHOOSE k \in 1..Len(group_edges) :
                 /\ \A j \in 1..Len(group_edges) :
                        group_edges[j].confidence >= group_edges[k].confidence
                 /\ \A j \in 1..(k - 1) :
                        group_edges[j].confidence > group_edges[k].confidence
    IN  group_edges[k]

ResolveGroupKeepMin(group_edges) ==
    IF Contradictory(group_edges) THEN <<MinByConfidence(group_edges)>> ELSE group_edges

\* The body of the loop over edge_groups.items(): what one group contributes.
ResolveGroup(group_edges) ==
    IF Contradictory(group_edges)
    THEN <<MaxByConfidence(group_edges)>>
    ELSE group_edges

ResolveContradictions(es) ==
    LET edge_groups == GroupByPair(es, 1, <<>>)
    IN  Flatten([k \in 1..Len(edge_groups) |-> ResolveGroup(edge_groups[k])])

(***************************************************************************)
(* LinkExtractor._resolve_duplicates                                       *)
(***************************************************************************)
TripleKey(edge) == <<edge.source_id, edge.target_id, edge.predicate>>

\* The loop over edges; seen is the dict's values in key-insertion order
\* (assigning to an existing key keeps the key's position).
RECURSIVE DuplicateLoop(_, _, _)
DuplicateLoop(es, i, seen) ==
    IF i > Len(es) THEN seen
    ELSE LET edge == es[i]
             at == {k \in 1..Len(seen) : TripleKey(seen[k]) = TripleKey(edge)}
         IN  IF at = {}
             THEN DuplicateLoop(es, i + 1, Append(seen, edge))
             ELSE LET k == CHOOSE k \in at : TRUE
                  IN  IF edge.confidence > seen[k].confidence
                      THEN DuplicateLoop(es, i + 1, [seen EXCEPT ![k] = edge])
                      ELSE DuplicateLoop(es, i + 1, seen)

\* A bug that keeps the first edge of every triple (streaming first-wins).
ResolveDuplicatesFirstWins(es) ==
    LET firsts == {i \in 1..Len(es) :
                      \A j \in 1..(i - 1) : TripleKey(es[j]) # TripleKey(es[i])}
        RECURSIVE Pick(_)
        Pick(i) == IF i > Len(es) THEN <<>>
                   ELSE (IF i \in firsts THEN <<es[i]>> ELSE <<>>) \o Pick(i + 1)
    IN  Pick(1)

\* A bug that builds the returned list back to front.
ResolveDuplicatesReversed(es) == Reverse(DuplicateLoop(es, 1, <<>>))

ResolveDuplicates(es) == DuplicateLoop(es, 1, <<>>)

(***************************************************************************)
(* LinkExtractor.extract_links, post-processing of the merged list         *)
(***************************************************************************)
\* A bug that forgets the contradiction pass.
PostProcessDuplicatesOnly(es) == ResolveDuplicates(es)

PostProcess(es) == ResolveDuplicates(ResolveContradictions(es))

\* the edges of one extractor, in order
ExtractedBy(es, extractor) == SelectSeq(es, LAMBDA edge : edge.extracted_by = extractor)

\* A bug that merges the schema-based edges in front of the pattern-based ones.
MergedEdgesSchemaFirst(es) ==
    ResolveDuplicates(ResolveContradictions(ExtractedBy(es, "llm")))
        \o ExtractedBy(es, "openie")

\* all_edges before extract_links' post-processing: the pattern-based edges,
\* extended by what extract_llm_relations returns, which are the schema-based
\* edges after its own two passes
MergedEdges(es) ==
    ExtractedBy(es, "openie")
        \o ResolveDuplicates(ResolveContradictions(ExtractedBy(es, "llm")))

(***************************************************************************)
(* Characters and the regular expressions of extract_openie_triples        *)
(***************************************************************************)
SpaceChars == {" "}
PunctChars == {"."}

\* str.lower() and re.IGNORECASE on the characters the model uses
Lower(c) ==
    CASE c = "A" -> "a" [] c = "B" -> "b" [] c = "D" -> "d" [] c = "G" -> "g"
      [] c = "M" -> "m" [] c = "P" -> "p" [] c = "R" -> "r" [] OTHER -> c

LowerStr(str) == [i \in 1..Len(str) |-> Lower(str[i])]

\* \w: everything the model uses that is neither whitespace nor punctuation
IsWordChar(c) == c \notin SpaceChars \cup PunctChars
IsSpaceChar(c) == c \in SpaceChars

\* text[start:end] for 0 <= start, 0 <= end
Slice(text, start, end) ==
    LET e == IF end > Len(text) THEN Len(text) ELSE end
    IN  IF start >= e THEN <<>> ELSE SubSeq(text, start + 1, e)

Min(S) == CHOOSE x \in S : \A y \in S : x <= y

\* First 1-based position at or after p that holds no word character
\* (Len(text) + 1 when the run reaches the end): where a greedy \w+ stops.
WordRunEnd(text, p) ==
    Min({q \in p..(Len(text) + 1) : q = Len(text) + 1 \/ ~IsWordChar(text[q])})

\* Likewise for a greedy \s+.
SpaceRunEnd(text, p) ==
    Min({q \in p..(Len(text) + 1) : q = Len(text) + 1 \/ ~IsSpaceChar(text[q])})

\* The literal word at position p, ignoring case.
LiteralAt(text, p, word) ==
    /\ p + Len(word) - 1 <= Len(text)
    /\ \A i \in 1..Len(word) : Lower(text[p + i - 1]) = word[i]

\* Position after "\s+word" repeated for every word, starting at q; 0 if the
\* text does not match there.
RECURSIVE AfterKeywords(_, _, _)
AfterKeywords(text, q, words) ==
    IF words = <<>> THEN q
    ELSE LET s == SpaceRunEnd(text, q)
         IN  IF s = q \/ ~LiteralAt(text, s, Head(words)) THEN 0
             ELSE AfterKeywords(text, s + Len(Head(words)), Tail(words))

\* r"(\w+)\s+word1\s+...\s+(\w+)" matched at 1-based position p: the match
\* (0-based start, exclusive end, the two groups), or NoMatch.
NoMatch == [end |-> -1]

MatchAt(text, p, words) ==
    IF p > Len(text) \/ ~IsWordChar(text[p]) THEN NoMatch
    ELSE LET q == WordRunEnd(text, p)
             r == AfterKeywords(text, q, words)
         IN  IF r = 0 THEN NoMatch
             ELSE LET s == SpaceRunEnd(text, r)
                  IN  IF s = r \/ s > Len(text) \/ ~IsWordChar(text[s]) THEN NoMatch
                      ELSE LET e == WordRunEnd(text, s)
                           IN  [start |-> p - 1, end |-> e - 1,
                                subject |-> SubSeq(text, p, q - 1),
                                obj |-> SubSeq(text, s, e - 1)]

\* re.finditer: the leftmost match at or after pos, then on from its end.
RECURSIVE FindIter(_, _, _)
FindIter(text, words, pos) ==
    LET starts == {p \in pos..Len(text) : MatchAt(text, p, words) # NoMatch}
    IN  IF starts = {} THEN <<>>
        ELSE LET m == MatchAt(text, Min(starts), words)
             IN  <<m>> \o FindIter(text, words, m.end + 1)

KwDepends == <<"d", "e", "p", "e", "n", "d", "s">>
KwOn == <<"o", "n">>
KwMitigates == <<"m", "i", "t", "i", "g", "a", "t", "e", "s">>
KwDefines == <<"d", "e", "f", "i", "n", "e", "s">>

\* patterns, in the order of the list
Patterns ==
    << [words |-> <<KwDepends, KwOn>>, relation |-> "depends_on"],
       [words |-> <<KwMitigates>>, relation |-> "mitigates"],
       [words |-> <<KwDefines>>, relation |-> "defines"] >>

(***************************************************************************)
(* LinkExtractor.extract_openie_triples                                    *)
(***************************************************************************)
\* A bug that forgets .lower() on the registry's terms.
ConceptTermsGetCaseSensitive(registry, key, default) ==
    LET at == {i \in 1..Len(registry) : registry[i].canonical_term = key}
    IN  IF at = {} THEN default
        ELSE registry[CHOOSE i \in at : \A j \in at : j <= i].canonical_id

\* concept_terms.get(key, default) with
\* concept_terms = {c.canonical_term.lower(): c.canonical_id for c in registry}:
\* of several entries with the same lowered term the last one wins.
ConceptTermsGet(registry, key, default) ==
    LET at == {i \in 1..Len(registry) : LowerStr(registry[i].canonical_term) = key}
    IN  IF at = {} THEN default
        ELSE registry[CHOOSE i \in at : \A j \in at : j <= i].canonical_id

TriplesOf(text, registry, pattern) ==
    LET matches == FindIter(text, pattern.words, 1)
    IN  [k \in 1..Len(matches) |->
            [subject_id |-> ConceptTermsGet(registry, LowerStr(matches[k].subject),
                                            matches[k].subject),
             relation   |-> pattern.relation,
             obj_id     |-> ConceptTermsGet(registry, LowerStr(matches[k].obj),
                                            matches[k].obj),
             start_char |-> matches[k].start,
             end_char   |-> matches[k].end]]

ExtractOpenIETriples(text, registry) ==
    Flatten([k \in 1..Len(Patterns) |-> TriplesOf(text, registry, Patterns[k])])

(***************************************************************************)
(* LinkExtractor.extract_links, pattern-based part                         *)
(***************************************************************************)
\* confidence=0.6, in tenths
OpenIEConfidence == 6

\* A bug that forgets to shift the match offsets by the node's offset.
OpenIEEvidenceUnshifted(node, triple) ==
    [text        |-> Slice(node.text, triple.start_char, triple.end_char),
     start_char  |-> triple.start_char,
     end_char    |-> triple.end_char,
     page_number |-> node.page_number,
     section_id  |-> node.id,
     confidence  |-> OpenIEConfidence]

OpenIEEvidence(node, triple) ==
    [text        |-> Slice(node.text, triple.start_char, triple.end_char),
     start_char  |-> triple.start_char + node.start_char,
     end_char    |-> triple.end_char + node.start_char,
     page_number |-> node.page_number,
     section_id  |-> node.id,
     confidence  |-> OpenIEConfidence]

\* A bug that builds the edge without its evidence span.
OpenIEEdgeNoEvidence(node, triple) ==
    [source_id      |-> triple.subject_id,
     target_id      |-> triple.obj_id,
     predicate      |-> triple.relation,
     evidence_spans |-> <<>>,
     confidence     |-> OpenIEConfidence,
     extracted_by   |-> "openie"]

OpenIEEdge(node, triple) ==
    [source_id      |-> triple.subject_id,
     target_id      |-> triple.obj_id,
     predicate      |-> triple.relation,
     evidence_spans |-> <<OpenIEEvidence(node, triple)>>,
     confidence     |-> OpenIEConfidence,
     extracted_by   |-> "openie"]

OpenIEEdgesOfNode(node, registry) ==
    LET triples == ExtractOpenIETriples(node.text, registry)
    IN  [k \in 1..Len(triples) |-> OpenIEEdge(node, triples[k])]

\* the loop over document_tree
OpenIEEdges(tree, registry) ==
    Flatten([n \in 1..Len(tree) |-> OpenIEEdgesOfNode(tree[n], registry)])

(***************************************************************************)
(* LinkExtractor.extract_llm_relations                                     *)
(***************************************************************************)
\* batch_size = 5
LlmBatchSize == 5

\* number of iterations of range(0, len(document_nodes), batch_size)
NumBatches(n, size) == (n + size - 1) \div size

\* the predicates of the default self.relation_schema
RelationSchema ==
    {"depends_on", "requires", "triggers", "mitigates", "controls", "reduces",
     "supersedes", "replaces", "updates", "defines", "specifies", "describes",
     "maps_to", "corresponds_to", "relates_to", "related_to",
     "associated_with", "similar_to"}

\* A bug that turns every proposal of the response into an edge, unchecked.
ParseRelationResponseUnchecked(response, batch, registry) ==
    [i \in 1..Len(response) |->
        [source_id      |-> response[i].source_id,
         target_id      |-> response[i].target_id,
         predicate      |-> response[i].predicate,
         evidence_spans |->
            IF response[i].evidence_text = <<>> THEN <<>>
            ELSE <<[text        |-> response[i].evidence_text,
                    start_char  |-> response[i].evidence_start_char,
                    end_char    |-> response[i].evidence_end_char,
                    page_number |-> response[i].evidence_page_number,
                    section_id  |-> "",
                    confidence  |-> response[i].confidence]>>,
         confidence     |-> response[i].confidence,
         extracted_by   |-> "llm"]]

\* _parse_relation_response: the body is a TODO, it returns the empty list
\* whatever the response holds.
ParseRelationResponse(response, batch, registry) == <<>>

(***************************************************************************)
(* TaxonomyBuilder.cluster_concepts                                        *)
(***************************************************************************)
\* What DBSCAN(min_samples=2).fit_predict may return for n points: -1 marks
\* noise, the clusters are numbered from 0 without gaps, and a cluster holds
\* a core point and a neighbour of it, so at least two points.  The model
\* lets the clustering find up to two clusters.
DbscanLabelings(n) ==
    {labels \in [1..n -> {-1, 0, 1}] :
        /\ \A l \in {0, 1} :
              (\E i \in 1..n : labels[i] = l) =>
                  Cardinality({i \in 1..n : labels[i] = l}) >= 2
        /\ (\E i \in 1..n : labels[i] = 1) => (\E i \in 1..n : labels[i] = 0)}

\* The grouping loop: clusters[label].append(concepts[idx].canonical_id)
RECURSIVE GroupByLabel(_, _, _, _)
GroupByLabel(concepts, labels, idx, dict) ==
    IF idx > Len(concepts) THEN dict
    ELSE LET at == {k \in 1..Len(dict) : dict[k].label = labels[idx]}
         IN  IF at = {}
             THEN GroupByLabel(concepts, labels, idx + 1,
                      Append(dict, [label |-> labels[idx], ids |-> <<concepts[idx]>>]))
             ELSE LET k == CHOOSE k \in at : TRUE
                  IN  GroupByLabel(concepts, labels, idx + 1,
                          [dict EXCEPT ![k].ids = Append(@, concepts[idx])])

ClusterConcepts(concepts, labels) ==
    IF concepts = <<>> THEN <<>> ELSE GroupByLabel(concepts, labels, 1, <<>>)

(***************************************************************************)
(* TaxonomyBuilder.build_taxonomy, candidate pairs                         *)
(***************************************************************************)
\* for i in range(len(ids)): for j in range(i + 1, len(ids)): pairs.append(...)
RECURSIVE PairsFrom(_, _, _)
PairsFrom(ids, i, j) ==
    IF i > Len(ids) THEN <<>>
    ELSE IF j > Len(ids) THEN PairsFrom(ids, i + 1, i + 2)
    ELSE <<(<<ids[i], ids[j]>>)>> \o PairsFrom(ids, i, j + 1)

\* what one cluster contributes ("if len(cluster_concept_ids) > 1")
PairsWithin(ids) == IF Len(ids) > 1 THEN PairsFrom(ids, 1, 2) ELSE <<>>

\* A bug that pairs the concepts of all clusters with each other.
CandidatePairsAcross(dict) ==
    PairsWithin(Flatten([k \in 1..Len(dict) |-> dict[k].ids]))

CandidatePairs(dict) ==
    Flatten([k \in 1..Len(dict) |-> PairsWithin(dict[k].ids)])

(***************************************************************************)
(* TaxonomyBuilder.propose_taxonomy_relations, expand_seed_taxonomy        *)
(***************************************************************************)
\* batch_size = 10
PairBatchSize == 10

\* A bug that turns every proposal of the response into an edge, unchecked.
ParseTaxonomyResponseUnchecked(response, registry) ==
    [i \in 1..Len(response) |->
        [parent_id         |-> response[i].parent_id,
         child_id          |-> response[i].child_id,
         relationship_type |-> response[i].relationship_type,
         evidence_spans    |->
            IF response[i].evidence_text = <<>> THEN <<>>
            ELSE <<[text        |-> response[i].evidence_text,
                    start_char  |-> response[i].evidence_start_char,
                    end_char    |-> response[i].evidence_end_char,
                    page_number |-> response[i].evidence_page_number]>>,
         confidence        |-> response[i].confidence,
         extracted_by      |-> "llm"]]

\* _parse_taxonomy_response: the body is a TODO, it returns the empty list
\* whatever the response holds.
ParseTaxonomyResponse(response, registry) == <<>>

\* expand_seed_taxonomy: the body is a TODO, it returns the empty list.
ExpandSeedTaxonomy(seed, new_concepts) == <<>>

\* "if seed_taxonomy:": None and the empty dict are false
Truthy(seed) == ~seed.is_none /\ seed.nodes # {}

\* "[e for e in taxonomy_edges if e.evidence_spans]" under "if require_evidence:"
EvidenceFilter(es, required) ==
    IF required
    THEN LET RECURSIVE Keep(_)
             Keep(rest) == IF rest = <<>> THEN <<>>
                           ELSE (IF Head(rest).evidence_spans # <<>>
                                 THEN <<Head(rest)>> ELSE <<>>) \o Keep(Tail(rest))
         IN  Keep(es)
    ELSE es

(***************************************************************************)
(* StructuredExtractionPipeline: validate_output and the confidence        *)
(* summary of run_pipeline                                                 *)
(***************************************************************************)
\* min_confidence: float = 0.3
DefaultMinConfidence == 3

\* Bound on the length of the edge lists a stage hands back.
MaxStageEdges == 2

\* f"Taxonomy edge {edge.parent_id}->{edge.child_id} missing evidence" and the
\* three other messages: the parts of the formatted string
Diagnostic(kind, from, to, what) == <<kind, " edge ", from, "->", to, " ", what>>

\* the two ids the message of an edge names
EdgeEnds(kind, edge) ==
    IF kind = "Taxonomy" THEN <<edge.parent_id, edge.child_id>>
    ELSE <<edge.source_id, edge.target_id>>

\* a "for edge in ...: if <test>: errors.append(<message>)" loop, from the
\* edge at index i on; fails[i] is the outcome of the test on edge i
RECURSIVE ErrorsFor(_, _, _, _, _)
ErrorsFor(es, fails, kind, what, i) ==
    IF i > Len(es) THEN <<>>
    ELSE (IF fails[i]
          THEN <<Diagnostic(kind, EdgeEnds(kind, es[i])[1], EdgeEnds(kind, es[i])[2], what)>>
          ELSE <<>>)
         \o ErrorsFor(es, fails, kind, what, i + 1)

\* "not edge.evidence_spans", per edge
MissingEvidence(es) == [i \in DOMAIN es |-> es[i].evidence_spans = <<>>]

\* "edge.confidence < self.min_confidence", per edge
BelowMinConfidence(es, threshold) == [i \in DOMAIN es |-> es[i].confidence < threshold]

\* A bug that also reports an edge whose confidence is at the threshold.
ValidateOutputInclusive(out, required, threshold) ==
    LET AtOrBelow(es) == [i \in DOMAIN es |-> es[i].confidence <= threshold]
    IN  (IF required
         THEN ErrorsFor(out.taxonomy_edges, MissingEvidence(out.taxonomy_edges),
                        "Taxonomy", "missing evidence", 1)
              \o ErrorsFor(out.kg_edges, MissingEvidence(out.kg_edges),
                           "KG", "missing evidence", 1)
         ELSE <<>>)
        \o ErrorsFor(out.taxonomy_edges, AtOrBelow(out.taxonomy_edges),
                     "Taxonomy", "below confidence threshold", 1)
        \o ErrorsFor(out.kg_edges, AtOrBelow(out.kg_edges),
                     "KG", "below confidence threshold", 1)

\* validate_output: the evidence checks under "if self.require_evidence:",
\* then the confidence checks; contradiction detection is a TODO
ValidateOutput(out, required, threshold) ==
    (IF required
     THEN ErrorsFor(out.taxonomy_edges, MissingEvidence(out.taxonomy_edges),
                    "Taxonomy", "missing evidence", 1)
          \o ErrorsFor(out.kg_edges, MissingEvidence(out.kg_edges),
                       "KG", "missing evidence", 1)
     ELSE <<>>)
    \o ErrorsFor(out.taxonomy_edges, BelowMinConfidence(out.taxonomy_edges, threshold),
                 "Taxonomy", "below confidence threshold", 1)
    \o ErrorsFor(out.kg_edges, BelowMinConfidence(out.kg_edges, threshold),
                 "KG", "below confidence threshold", 1)

\* sum(e.confidence for e in es)
RECURSIVE SumConfidence(_)
SumConfidence(es) ==
    IF es = <<>> THEN 0 ELSE Head(es).confidence + SumConfidence(Tail(es))

\* sum(...) / len(...): the quotient, kept as numerator and denominator
Average(es) == [num |-> SumConfidence(es), den |-> Len(es)]

\* A bug that reports every collection, an empty one as 0.
ConfidenceSummaryAlways(out) ==
    << [key |-> "taxonomy_avg",
        value |-> IF out.taxonomy_edges # <<>> THEN Average(out.taxonomy_edges)
                  ELSE [num |-> 0, den |-> 1]],
       [key |-> "kg_avg",
        value |-> IF out.kg_edges # <<>> THEN Average(out.kg_edges)
                  ELSE [num |-> 0, den |-> 1]] >>

\* the two "if output.<edges>:" blocks that fill output.confidence_summary
ConfidenceSummary(out) ==
    (IF out.taxonomy_edges # <<>>
     THEN <<[key |-> "taxonomy_avg", value |-> Average(out.taxonomy_edges)]>>
     ELSE <<>>)
    \o (IF out.kg_edges # <<>>
        THEN <<[key |-> "kg_avg", value |-> Average(out.kg_edges)]>>
        ELSE <<>>)

(***************************************************************************)
(* The resolution passes on an arbitrary edge list                         *)
(***************************************************************************)
SpanOf(extractor) ==
    [text |-> <<"x">>, start_char |-> IF extractor = "openie" THEN 0 ELSE 1,
     end_char |-> IF extractor = "openie" THEN 1 ELSE 2, page_number |-> 1]

EdgeUniverse ==
    {[source_id |-> "A", target_id |-> t, predicate |-> p, confidence |-> c,
      extracted_by |-> x, evidence_spans |-> <<SpanOf(x)>>] :
        t \in {"B", "C"}, p \in {"depends_on", "mitigates"},
        c \in {6, 9}, x \in {"openie", "llm"}}

ResolveIdle ==
    /\ r_pc = "idle"
    /\ edges = <<>>
    /\ resolved_edges = <<>>
    /\ resolved_again = <<>>

LinksIdle ==
    /\ l_pc = "idle"
    /\ document_text = <<>>
    /\ document_tree = <<>>
    /\ concept_registry = <<>>
    /\ use_openie = FALSE
    /\ use_llm = FALSE
    /\ llm_batch = 0
    /\ llm_responses = <<>>
    /\ kg_edges = <<>>
    /\ all_edges = <<>>
    /\ returned_edges = <<>>

NoSeed == [is_none |-> TRUE, nodes |-> {}]

TaxonomyIdle ==
    /\ t_pc = "idle"
    /\ taxonomy_registry = <<>>
    /\ seed_taxonomy = NoSeed
    /\ require_evidence = FALSE
    /\ clusters = <<>>
    /\ concept_pairs = <<>>
    /\ pair_batch = 0
    /\ taxonomy_responses = <<>>
    /\ taxonomy_prompts = <<>>
    /\ taxonomy_edges = <<>>
    /\ returned_taxonomy = <<>>
    /\ failed_batch = 0
    /\ validation_errors = <<>>

\* ExtractionPipelineOutput with the defaults of its fields
NoOutput ==
    [document_tree |-> <<>>, concept_registry |-> <<>>, taxonomy_edges |-> <<>>,
     kg_edges |-> <<>>, validation_errors |-> <<>>, confidence_summary |-> <<>>]

NoStageInput == [taxonomy |-> <<>>, links |-> <<>>]

PipelineIdle ==
    /\ p_pc = "idle"
    /\ pipeline_require_evidence = FALSE
    /\ min_confidence = 0
    /\ validate_schema = FALSE
    /\ run_document_tree = <<>>
    /\ run_concept_registry = <<>>
    /\ run_taxonomy_edges = <<>>
    /\ run_kg_edges = <<>>
    /\ stage_input = NoStageInput
    /\ failed_stage = ""
    /\ output = NoOutput

AnalyzeIdle ==
    /\ a_pc = "idle"
    /\ input_kind = "none"
    /\ document_status = "absent"
    /\ page_text = ""
    /\ concepts_data = <<>>
    /\ stored_concepts = <<>>
    /\ committed = [status |-> "absent", concepts |-> <<>>]
    /\ packets = <<>>
    /\ llm_failed = FALSE
    /\ http_status = 0

ConnectionsIdle ==
    /\ b_pc = "idle"
    /\ socket_state = <<>>
    /\ has_entry = FALSE
    /\ connections = {}
    /\ iterated_live = FALSE
    /\ iter_used = 0
    /\ to_visit = {}
    /\ sending_to = 0
    /\ attempted = {}
    /\ disconnected = {}
    /\ registered = {}
    /\ broadcasts = 0

NoRequest == [endpoint |-> "none", provider |-> "none"]

NoResponse == [status |-> 0, error |-> FALSE, provider |-> "none"]

ExperimentIdle ==
    /\ e_pc = "idle"
    /\ env_provider = "none"
    /\ LLM_PROVIDER = "none"
    /\ api_keys = {}
    /\ model_env = {}
    /\ provider_before = "none"
    /\ last_request = NoRequest
    /\ last_response = NoResponse
    /\ requests = 0

InitResolve ==
    /\ r_pc = "input"
    /\ edges \in SeqsUpTo(EdgeUniverse, MaxEdges)
    /\ resolved_edges = <<>>
    /\ resolved_again = <<>>
    /\ LinksIdle
    /\ TaxonomyIdle
    /\ PipelineIdle
    /\ AnalyzeIdle
    /\ ConnectionsIdle
    /\ ExperimentIdle

\* edges = self._resolve_contradictions(edges)
RunResolveContradictions ==
    /\ r_pc = "input"
    /\ resolved_edges' = ResolveContradictions(edges)
    /\ r_pc' = "contradictions"
    /\ UNCHANGED <<edges, resolved_again, notResolveVars>>

\* the same pass on its own output
RunResolveContradictionsAgain ==
    /\ r_pc = "contradictions"
    /\ resolved_again' = ResolveContradictions(resolved_edges)
    /\ r_pc' = "contradictions_twice"
    /\ UNCHANGED <<edges, resolved_edges, notResolveVars>>

\* edges = self._resolve_duplicates(edges)
RunResolveDuplicates ==
    /\ r_pc = "input"
    /\ resolved_edges' = ResolveDuplicates(edges)
    /\ r_pc' = "duplicates"
    /\ UNCHANGED <<edges, resolved_again, notResolveVars>>

\* the same pass on its own output
RunResolveDuplicatesAgain ==
    /\ r_pc = "duplicates"
    /\ resolved_again' = ResolveDuplicates(resolved_edges)
    /\ r_pc' = "duplicates_twice"
    /\ UNCHANGED <<edges, resolved_edges, notResolveVars>>

\* extract_links' post-processing of a merged list: both passes in order
RunPostProcess ==
    /\ r_pc = "input"
    /\ resolved_edges' = PostProcess(edges)
    /\ r_pc' = "post_processed"
    /\ UNCHANGED <<edges, resolved_again, notResolveVars>>

\* extract_links on the edges the two extractors produce: the merge of the
\* pattern-based edges and the pre-resolved schema-based edges, post-processed
RunMergeAndPostProcess ==
    /\ r_pc = "input"
    /\ resolved_edges' = PostProcess(MergedEdges(edges))
    /\ r_pc' = "merged"
    /\ UNCHANGED <<edges, resolved_again, notResolveVars>>

NextResolve ==
    \/ RunMergeAndPostProcess
    \/ RunResolveContradictions
    \/ RunResolveContradictionsAgain
    \/ RunResolveDuplicates
    \/ RunResolveDuplicatesAgain
    \/ RunPostProcess

SpecResolve == InitResolve /\ [][NextResolve]_vars

(***************************************************************************)
(* One call of LinkExtractor.extract_links                                 *)
(***************************************************************************)
WordA == <<"a">>
WordB == <<"b">>
Space == <<" ">>
Stop == <<".">>

\* The sentences documents are made of.
Phrases ==
    << WordA \o Space \o KwMitigates \o Space \o WordB \o Stop,
       WordA \o Space \o KwDefines \o Space \o WordB \o Stop,
       WordB \o Space \o KwDepends \o Space \o KwOn \o Space \o WordA \o Stop,
       <<"A", " ", " ", "M">> \o Tail(KwMitigates) \o Space \o WordB,
       WordB \o Space \o SubSeq(KwMitigates, 1, 8) \o Space \o WordA \o Stop >>

TextOf(ps) == Flatten([i \in 1..Len(ps) |-> Phrases[ps[i]]])

\* A node over the phrases i..j of the document made of the phrases ps: its
\* text is the document's text at its offsets.
NodeOver(id, ps, i, j) ==
    LET start == Len(TextOf(SubSeq(ps, 1, i - 1)))
        end   == Len(TextOf(SubSeq(ps, 1, j)))
    IN  [id |-> id, text |-> Slice(TextOf(ps), start, end),
         start_char |-> start, end_char |-> end, page_number |-> 1]

\* Document trees: nothing, the document node, one section, or both.
TreesOver(ps) ==
    LET root == NodeOver("doc", ps, 1, Len(ps))
        sections == {NodeOver("sec", ps, i, j) : i, j \in 1..Len(ps)}
    IN  {<<>>, <<root>>} \cup {<<sec>> : sec \in sections}
            \cup {<<root, sec>> : sec \in sections}

ConceptA == [canonical_id |-> <<"c", "1">>, canonical_term |-> <<"A">>]
ConceptB == [canonical_id |-> <<"c", "2">>, canonical_term |-> <<"b">>]

\* a second entry with ConceptA's term, in another case
ConceptA2 == [canonical_id |-> <<"c", "3">>, canonical_term |-> <<"a">>]

Registries == {<<>>, <<ConceptA>>, <<ConceptA, ConceptB>>, <<ConceptA, ConceptA2>>}

\* What the LLM may answer for a batch: no edge, an edge quoting the document
\* at its offsets, an edge whose quote is not in the document there, an edge
\* without a quote, and an edge whose predicate is not in the schema.
Proposal(quote, start, end) ==
    [source_id |-> <<"c", "1">>, target_id |-> <<"c", "2">>,
     predicate |-> "mitigates", relationship_type |-> "mitigation",
     evidence_text |-> quote, evidence_start_char |-> start,
     evidence_end_char |-> end, evidence_page_number |-> 1, confidence |-> 9]

LlmResponses(text) ==
    { <<>>,
      <<Proposal(Slice(text, 0, 1), 0, 1)>>,
      <<Proposal(<<"z">>, 0, 1)>>,
      <<Proposal(<<>>, 0, 0)>>,
      <<[Proposal(Slice(text, 0, 1), 0, 1) EXCEPT !.predicate = "causes"]>> }

InitLinks ==
    /\ l_pc = "start"
    /\ \E ps \in SeqsUpTo(1..Len(Phrases), MaxPhrases) :
          /\ ps # <<>>
          /\ document_text = TextOf(ps)
          /\ document_tree \in TreesOver(ps)
    /\ concept_registry \in Registries
    /\ use_openie \in BOOLEAN
    /\ use_llm \in BOOLEAN
    /\ llm_batch = 0
    /\ llm_responses = <<>>
    /\ kg_edges = <<>>
    /\ all_edges = <<>>
    /\ returned_edges = <<>>
    /\ ResolveIdle
    /\ TaxonomyIdle
    /\ PipelineIdle
    /\ AnalyzeIdle
    /\ ConnectionsIdle
    /\ ExperimentIdle

\* "if use_openie:" and the loop over the nodes
LinksOpenIE ==
    /\ l_pc = "start"
    /\ all_edges' = IF use_openie THEN OpenIEEdges(document_tree, concept_registry)
                                  ELSE <<>>
    /\ l_pc' = "openie"
    /\ UNCHANGED <<document_text, document_tree, concept_registry, use_openie,
                   use_llm, llm_batch, llm_responses, kg_edges, returned_edges,
                   notLinkVars>>

\* A bug that slices one element short: [i : i + batch_size - 1]
BatchOfOneShort(nodes, b, size) == Slice(nodes, b * size, (b + 1) * size - 1)

\* the nodes of batch number b (from 0)
BatchOf(nodes, b, size) == Slice(nodes, b * size, (b + 1) * size)

\* one iteration of extract_llm_relations' loop: the LLM answers
LinksLlmBatch ==
    /\ l_pc = "openie" /\ use_llm
    /\ llm_batch < NumBatches(Len(document_tree), LlmBatchSize)
    /\ \E response \in LlmResponses(document_text) :
          /\ llm_responses' = Append(llm_responses, response)
          /\ kg_edges' = kg_edges \o
                ParseRelationResponse(response,
                    BatchOf(document_tree, llm_batch, LlmBatchSize),
                    concept_registry)
    /\ llm_batch' = llm_batch + 1
    /\ UNCHANGED <<l_pc, document_text, document_tree, concept_registry,
                   use_openie, use_llm, all_edges, returned_edges, notLinkVars>>

\* one iteration of the loop: self.llm.acomplete raises; nothing catches it,
\* neither here nor in extract_links
LinksLlmRaises ==
    /\ l_pc = "openie" /\ use_llm
    /\ llm_batch < NumBatches(Len(document_tree), LlmBatchSize)
    /\ l_pc' = "raised"
    /\ UNCHANGED <<document_text, document_tree, concept_registry, use_openie,
                   use_llm, llm_batch, llm_responses, kg_edges, all_edges,
                   returned_edges, notLinkVars>>

\* the loop is over: extract_llm_relations resolves its edges and returns,
\* extract_links extends all_edges by them
LinksLlmReturns ==
    /\ l_pc = "openie" /\ use_llm
    /\ llm_batch = NumBatches(Len(document_tree), LlmBatchSize)
    /\ kg_edges' = ResolveDuplicates(ResolveContradictions(kg_edges))
    /\ all_edges' = all_edges \o kg_edges'
    /\ l_pc' = "merged"
    /\ UNCHANGED <<document_text, document_tree, concept_registry, use_openie,
                   use_llm, llm_batch, llm_responses, returned_edges, notLinkVars>>

\* "if use_llm:" not taken
LinksSkipLlm ==
    /\ l_pc = "openie" /\ ~use_llm
    /\ l_pc' = "merged"
    /\ UNCHANGED <<document_text, document_tree, concept_registry, use_openie,
                   use_llm, llm_batch, llm_responses, kg_edges, all_edges,
                   returned_edges, notLinkVars>>

\* post-processing and return
LinksReturn ==
    /\ l_pc = "merged"
    /\ returned_edges' = PostProcess(all_edges)
    /\ l_pc' = "done"
    /\ UNCHANGED <<document_text, document_tree, concept_registry, use_openie,
                   use_llm, llm_batch, llm_responses, kg_edges, all_edges,
                   notLinkVars>>

NextLinks ==
    \/ LinksOpenIE
    \/ LinksLlmBatch
    \/ LinksLlmRaises
    \/ LinksLlmReturns
    \/ LinksSkipLlm
    \/ LinksReturn

SpecLinks == InitLinks /\ [][NextLinks]_vars

\* The worked example: one node over the whole text, a registry of three
\* concepts, pattern extraction only.
ExampleText ==
    << "G", "D", "P", "R", " ", "r", "e", "q", "u", "i", "r", "e",
        "s", " ", "d", "a", "t", "a", " ", "p", "r", "o", "t", "e",
        "c", "t", "i", "o", "n", ".", " ", "D", "a", "t", "a", " ",
        "p", "r", "o", "t", "e", "c", "t", "i", "o", "n", " ", "m",
        "i", "t", "i", "g", "a", "t", "e", "s", " ", "R", "i", "s",
        "k", "." >>

ExampleGdpr == [canonical_id |-> <<"c", "1">>, canonical_term |-> << "G", "D", "P", "R" >>]
ExampleDataProtection ==
    [canonical_id |-> <<"c", "2">>,
     canonical_term |-> << "d", "a", "t", "a", " ", "p", "r", "o", "t", "e", "c", "t",
                        "i", "o", "n" >>]
ExampleRisk == [canonical_id |-> <<"c", "3">>, canonical_term |-> << "R", "i", "s", "k" >>]

InitLinksExample ==
    /\ l_pc = "start"
    /\ document_text = ExampleText
    /\ document_tree = <<[id |-> "doc", text |-> ExampleText, start_char |-> 0,
                          end_char |-> Len(ExampleText), page_number |-> 1]>>
    /\ concept_registry = <<ExampleGdpr, ExampleDataProtection, ExampleRisk>>
    /\ use_openie = TRUE
    /\ use_llm = FALSE
    /\ llm_batch = 0
    /\ llm_responses = <<>>
    /\ kg_edges = <<>>
    /\ all_edges = <<>>
    /\ returned_edges = <<>>
    /\ ResolveIdle
    /\ TaxonomyIdle
    /\ PipelineIdle
    /\ AnalyzeIdle
    /\ ConnectionsIdle
    /\ ExperimentIdle

\* extract_links on the documents made of Phrases and on the worked example
InitLinksWithExample == InitLinks \/ InitLinksExample

SpecLinksWithExample == InitLinksWithExample /\ [][NextLinks]_vars

(***************************************************************************)
(* One call of TaxonomyBuilder.build_taxonomy                              *)
(***************************************************************************)
Seeds == {NoSeed, [is_none |-> FALSE, nodes |-> {}],
          [is_none |-> FALSE, nodes |-> {"root"}]}

\* What the LLM may answer for a batch of pairs: nothing, a relation for the
\* first pair with a quote, one without, or one of low confidence.
TaxonomyProposal(pair, quoted) ==
    [parent_id |-> pair[1], child_id |-> pair[2], relationship_type |-> "is_a",
     evidence_text |-> IF quoted THEN <<"x">> ELSE <<>>,
     evidence_start_char |-> 0, evidence_end_char |-> IF quoted THEN 1 ELSE 0,
     evidence_page_number |-> 1, confidence |-> 9]

\* the pairs _build_taxonomy_prompt lists: those with both concepts in the
\* lookup
BuildTaxonomyPrompt(batch, registry) ==
    SelectSeq(batch, LAMBDA pair : pair[1] \in Range(registry) /\ pair[2] \in Range(registry))

TaxonomyResponses(batch) ==
    { <<>>,
      <<TaxonomyProposal(batch[1], TRUE)>>,
      <<TaxonomyProposal(batch[1], FALSE)>>,
      <<[TaxonomyProposal(batch[1], TRUE) EXCEPT !.confidence = 2]>> }

InitTaxonomy ==
    /\ t_pc = "start"
    /\ \E n \in 0..MaxConcepts : taxonomy_registry = [i \in 1..n |-> i]
    /\ seed_taxonomy \in Seeds
    /\ require_evidence \in BOOLEAN
    /\ clusters = <<>>
    /\ concept_pairs = <<>>
    /\ pair_batch = 0
    /\ taxonomy_responses = <<>>
    /\ taxonomy_prompts = <<>>
    /\ taxonomy_edges = <<>>
    /\ returned_taxonomy = <<>>
    /\ failed_batch = 0
    /\ validation_errors = <<>>
    /\ ResolveIdle
    /\ LinksIdle
    /\ PipelineIdle
    /\ AnalyzeIdle
    /\ ConnectionsIdle
    /\ ExperimentIdle

\* "if seed_taxonomy:" taken: expansion
TaxonomyExpand ==
    /\ t_pc = "start" /\ Truthy(seed_taxonomy)
    /\ returned_taxonomy' = ExpandSeedTaxonomy(seed_taxonomy, taxonomy_registry)
    /\ t_pc' = "done"
    /\ UNCHANGED <<taxonomy_registry, seed_taxonomy, require_evidence, clusters,
                   concept_pairs, pair_batch, taxonomy_responses, taxonomy_prompts,
                   taxonomy_edges,
                   failed_batch, validation_errors, notTaxonomyVars>>

\* step 1: cluster_concepts, with whatever labels the clustering returns
TaxonomyCluster ==
    /\ t_pc = "start" /\ ~Truthy(seed_taxonomy)
    /\ \E labels \in DbscanLabelings(Len(taxonomy_registry)) :
          clusters' = ClusterConcepts(taxonomy_registry, labels)
    /\ t_pc' = "clustered"
    /\ UNCHANGED <<taxonomy_registry, seed_taxonomy, require_evidence,
                   concept_pairs, pair_batch, taxonomy_responses, taxonomy_prompts,
                   taxonomy_edges,
                   returned_taxonomy, failed_batch, validation_errors,
                   notTaxonomyVars>>

\* step 1: the embedding call of cluster_concepts raises; nothing catches it
TaxonomyEmbedRaises ==
    /\ t_pc = "start" /\ ~Truthy(seed_taxonomy)
    /\ taxonomy_registry # <<>>
    /\ t_pc' = "raised"
    /\ UNCHANGED <<taxonomy_registry, seed_taxonomy, require_evidence, clusters,
                   concept_pairs, pair_batch, taxonomy_responses, taxonomy_prompts,
                   taxonomy_edges,
                   returned_taxonomy, failed_batch, validation_errors,
                   notTaxonomyVars>>

\* step 2: the candidate pairs
TaxonomyPairs ==
    /\ t_pc = "clustered"
    /\ concept_pairs' = CandidatePairs(clusters)
    /\ t_pc' = "proposing"
    /\ UNCHANGED <<taxonomy_registry, seed_taxonomy, require_evidence, clusters,
                   pair_batch, taxonomy_responses, taxonomy_prompts,
                   taxonomy_edges,
                   returned_taxonomy, failed_batch, validation_errors,
                   notTaxonomyVars>>

\* step 3, one iteration of propose_taxonomy_relations' loop: the LLM answers
TaxonomyProposeBatch ==
    /\ t_pc = "proposing"
    /\ pair_batch < NumBatches(Len(concept_pairs), PairBatchSize)
    /\ taxonomy_prompts' = Append(taxonomy_prompts,
          BuildTaxonomyPrompt(BatchOf(concept_pairs, pair_batch, PairBatchSize),
                              taxonomy_registry))
    /\ \E response \in TaxonomyResponses(BatchOf(concept_pairs, pair_batch, PairBatchSize)) :
          /\ taxonomy_responses' = Append(taxonomy_responses, response)
          /\ taxonomy_edges' = taxonomy_edges \o
                ParseTaxonomyResponse(response, taxonomy_registry)
    /\ pair_batch' = pair_batch + 1
    /\ UNCHANGED <<t_pc, taxonomy_registry, seed_taxonomy, require_evidence,
                   clusters, concept_pairs, returned_taxonomy, failed_batch,
                   validation_errors, notTaxonomyVars>>

\* step 3, one iteration of the loop: self.llm.acomplete raises; nothing
\* catches it, neither here nor in build_taxonomy, and nothing is recorded
TaxonomyProposeRaises ==
    /\ t_pc = "proposing"
    /\ pair_batch < NumBatches(Len(concept_pairs), PairBatchSize)
    /\ failed_batch' = pair_batch + 1
    /\ t_pc' = "raised"
    /\ UNCHANGED <<taxonomy_registry, seed_taxonomy, require_evidence, clusters,
                   concept_pairs, pair_batch, taxonomy_responses, taxonomy_prompts,
                   taxonomy_edges,
                   returned_taxonomy, validation_errors, notTaxonomyVars>>

\* step 4 and return
TaxonomyReturn ==
    /\ t_pc = "proposing"
    /\ pair_batch = NumBatches(Len(concept_pairs), PairBatchSize)
    /\ returned_taxonomy' = EvidenceFilter(taxonomy_edges, require_evidence)
    /\ t_pc' = "done"
    /\ UNCHANGED <<taxonomy_registry, seed_taxonomy, require_evidence, clusters,
                   concept_pairs, pair_batch, taxonomy_responses, taxonomy_prompts,
                   taxonomy_edges,
                   failed_batch, validation_errors, notTaxonomyVars>>

NextTaxonomy ==
    \/ TaxonomyExpand
    \/ TaxonomyCluster
    \/ TaxonomyEmbedRaises
    \/ TaxonomyPairs
    \/ TaxonomyProposeBatch
    \/ TaxonomyProposeRaises
    \/ TaxonomyReturn

SpecTaxonomy == InitTaxonomy /\ [][NextTaxonomy]_vars

\* A run of either extractor.
InitExtract == InitLinks \/ InitTaxonomy

NextExtract == NextLinks \/ NextTaxonomy

SpecExtract == InitExtract /\ [][NextExtract]_vars

\* extract_links' post-processing, on an arbitrary merged list or inside a
\* call of extract_links.
InitPostProcess == InitResolve \/ InitLinks

NextPostProcess == NextResolve \/ NextLinks

SpecPostProcess == InitPostProcess /\ [][NextPostProcess]_vars

(***************************************************************************)
(* One call of StructuredExtractionPipeline.run_pipeline                   *)
(*                                                                         *)
(* run_pipeline awaits its four stages through self.  The stage methods of *)
(* the source are placeholders that return the empty list; here a stage    *)
(* answers with any list of its declared type, the placeholder's empty     *)
(* list included, or raises, as an extractor put in its place does.        *)
(***************************************************************************)
StageSpan == [text |-> <<"x">>, start_char |-> 0, end_char |-> 1, page_number |-> 1]

StageNode ==
    [id |-> "doc", text |-> <<"x">>, start_char |-> 0, end_char |-> 1,
     page_number |-> 1]

StageTrees == {<<>>, <<StageNode>>}

StageRegistries(tree) ==
    IF tree = <<>> THEN {<<>>}
    ELSE {<<>>, <<[canonical_id |-> "c1", canonical_term |-> <<"a">>],
                  [canonical_id |-> "c2", canonical_term |-> <<"b">>]>>}

StageTaxonomyEdge(parent, child, spans, confidence) ==
    [parent_id |-> parent, child_id |-> child, relationship_type |-> "is_a",
     evidence_spans |-> spans, confidence |-> confidence]

StageTaxonomyEdges ==
    { StageTaxonomyEdge("c1", "c2", <<StageSpan>>, 9),
      StageTaxonomyEdge("c1", "c2", <<>>, 9),
      StageTaxonomyEdge("c2", "c1", <<StageSpan>>, 3),
      StageTaxonomyEdge("c2", "c1", <<>>, 2),
      StageTaxonomyEdge("c1", "c1", <<StageSpan>>, 2) }

StageKgEdge(spans, confidence) ==
    [source_id |-> "c1", target_id |-> "c2", predicate |-> "mitigates",
     relationship_type |-> "mitigation", evidence_spans |-> spans,
     confidence |-> confidence]

StageKgEdges ==
    { StageKgEdge(<<StageSpan>>, 9), StageKgEdge(<<>>, 9),
      StageKgEdge(<<StageSpan>>, 3), StageKgEdge(<<StageSpan>>, 2) }

InitPipeline ==
    /\ p_pc = "start"
    /\ pipeline_require_evidence \in BOOLEAN
    /\ min_confidence = DefaultMinConfidence
    /\ validate_schema \in BOOLEAN
    /\ run_document_tree = <<>>
    /\ run_concept_registry = <<>>
    /\ run_taxonomy_edges = <<>>
    /\ run_kg_edges = <<>>
    /\ stage_input = NoStageInput
    /\ failed_stage = ""
    /\ output = NoOutput
    /\ ResolveIdle
    /\ LinksIdle
    /\ TaxonomyIdle
    /\ AnalyzeIdle
    /\ ConnectionsIdle
    /\ ExperimentIdle

\* A bug that calls the link stage before the taxonomy stage.
StageAfterLinksFirst(pc) ==
    CASE pc = "start"    -> "tree"
      [] pc = "tree"     -> "concepts"
      [] pc = "concepts" -> "links"
      [] pc = "links"    -> "taxonomy"
      [] pc = "taxonomy" -> "created"
      [] pc = "created"  -> "validated"
      [] pc = "validated" -> "done"
      [] OTHER           -> "none"

\* the statement run_pipeline executes next: its statements in textual order
StageAfter(pc) ==
    CASE pc = "start"    -> "tree"
      [] pc = "tree"     -> "concepts"
      [] pc = "concepts" -> "taxonomy"
      [] pc = "taxonomy" -> "links"
      [] pc = "links"    -> "created"
      [] pc = "created"  -> "validated"
      [] pc = "validated" -> "done"
      [] OTHER           -> "none"

\* Stage 1: document_tree = await self.extract_document_tree(document_path)
PipelineTree ==
    /\ StageAfter(p_pc) = "tree"
    /\ run_document_tree' \in StageTrees
    /\ p_pc' = "tree"
    /\ UNCHANGED <<pipeline_require_evidence, min_confidence, validate_schema,
                   run_concept_registry, run_taxonomy_edges, run_kg_edges,
                   stage_input, failed_stage, output, notPipelineVars>>

\* Stage 2: concept_registry = await self.extract_concept_inventory(document_tree)
PipelineConcepts ==
    /\ StageAfter(p_pc) = "concepts"
    /\ run_concept_registry' \in StageRegistries(run_document_tree)
    /\ p_pc' = "concepts"
    /\ UNCHANGED <<pipeline_require_evidence, min_confidence, validate_schema,
                   run_document_tree, run_taxonomy_edges, run_kg_edges,
                   stage_input, failed_stage, output, notPipelineVars>>

\* Stage 3: taxonomy_edges = await self.build_taxonomy(concept_registry, seed_taxonomy)
PipelineTaxonomy ==
    /\ StageAfter(p_pc) = "taxonomy"
    /\ stage_input' = [stage_input EXCEPT !.taxonomy = run_concept_registry]
    /\ run_taxonomy_edges' \in SeqsUpTo(StageTaxonomyEdges, MaxStageEdges)
    /\ p_pc' = "taxonomy"
    /\ UNCHANGED <<pipeline_require_evidence, min_confidence, validate_schema,
                   run_document_tree, run_concept_registry, run_kg_edges,
                   failed_stage, output, notPipelineVars>>

\* Stage 4: kg_edges = await self.extract_links(document_tree, concept_registry)
PipelineLinks ==
    /\ StageAfter(p_pc) = "links"
    /\ stage_input' = [stage_input EXCEPT !.links = run_concept_registry]
    /\ run_kg_edges' \in SeqsUpTo(StageKgEdges, MaxStageEdges)
    /\ p_pc' = "links"
    /\ UNCHANGED <<pipeline_require_evidence, min_confidence, validate_schema,
                   run_document_tree, run_concept_registry, run_taxonomy_edges,
                   failed_stage, output, notPipelineVars>>

\* the awaited stage raises: run_pipeline has no try, the exception leaves it
PipelineStageRaises ==
    /\ StageAfter(p_pc) \in {"tree", "concepts", "taxonomy", "links"}
    /\ failed_stage' = StageAfter(p_pc)
    /\ p_pc' = "raised"
    /\ UNCHANGED <<pipeline_require_evidence, min_confidence, validate_schema,
                   run_document_tree, run_concept_registry, run_taxonomy_edges,
                   run_kg_edges, stage_input, output, notPipelineVars>>

\* output = ExtractionPipelineOutput(...)
PipelineCreate ==
    /\ StageAfter(p_pc) = "created"
    /\ output' = [document_tree |-> run_document_tree,
                  concept_registry |-> run_concept_registry,
                  taxonomy_edges |-> run_taxonomy_edges,
                  kg_edges |-> run_kg_edges,
                  validation_errors |-> <<>>,
                  confidence_summary |-> <<>>]
    /\ p_pc' = "created"
    /\ UNCHANGED <<pipeline_require_evidence, min_confidence, validate_schema,
                   run_document_tree, run_concept_registry, run_taxonomy_edges,
                   run_kg_edges, stage_input, failed_stage, notPipelineVars>>

\* if self.validate_schema: output.validation_errors = self.validate_output(output)
PipelineValidate ==
    /\ StageAfter(p_pc) = "validated"
    /\ output' = IF validate_schema
                 THEN [output EXCEPT !.validation_errors =
                          ValidateOutput(output, pipeline_require_evidence,
                                         min_confidence)]
                 ELSE output
    /\ p_pc' = "validated"
    /\ UNCHANGED <<pipeline_require_evidence, min_confidence, validate_schema,
                   run_document_tree, run_concept_registry, run_taxonomy_edges,
                   run_kg_edges, stage_input, failed_stage, notPipelineVars>>

\* the confidence summary and "return output"
PipelineSummary ==
    /\ StageAfter(p_pc) = "done"
    /\ output' = [output EXCEPT !.confidence_summary = ConfidenceSummary(output)]
    /\ p_pc' = "done"
    /\ UNCHANGED <<pipeline_require_evidence, min_confidence, validate_schema,
                   run_document_tree, run_concept_registry, run_taxonomy_edges,
                   run_kg_edges, stage_input, failed_stage, notPipelineVars>>

NextPipeline ==
    \/ PipelineTree
    \/ PipelineConcepts
    \/ PipelineTaxonomy
    \/ PipelineLinks
    \/ PipelineStageRaises
    \/ PipelineCreate
    \/ PipelineValidate
    \/ PipelineSummary

SpecPipeline == InitPipeline /\ [][NextPipeline]_vars

(***************************************************************************)
(* One POST /analyze request: analyze_pdf, generate_agent_packets and      *)
(* process_text_extraction                                                 *)
(***************************************************************************)
\* Bound on the number of concepts the LLM returns for a page.
MaxPageConcepts == 3

\* AgentPacket: sender, intent and what content.log reports
Packet(sender, intent, log) == [sender |-> sender, intent |-> intent, log |-> log]

\* float(x) accepts a number or a numeric string and raises on anything else
FloatAccepts(x) == x \in {"0.9", "0.5"}

\* float(x), in tenths
Float(x) == IF x = "0.9" THEN 9 ELSE 5

\* The concept dicts the LLM may return: a term and a confidence that float()
\* accepts or not.
ConceptDicts ==
    {[term |-> t, confidence |-> c] : t \in {<<"G">>, <<"r">>}, c \in {"0.9", "high"}}

\* "[c for c in concepts_data if c.get("term", "").lower() not in
\*   [t.lower() for t in exclude_terms]]"
FilterExcluded(data, exclude_terms) ==
    LET excluded == {LowerStr(exclude_terms[i]) : i \in DOMAIN exclude_terms}
        Kept(c) == LowerStr(c.term) \notin excluded
    IN  SelectSeq(data, Kept)

\* Concept(...) of process_text_extraction
ConceptRow(concept_data, page_number) ==
    [term |-> concept_data.term, confidence |-> Float(concept_data.confidence),
     assessment |-> "usually_true", extracted_by |-> "HARVESTER",
     page |-> page_number]

\* db.commit(): the database takes the session's document status and rows
Commit(status, rows) == [status |-> status, concepts |-> rows]

InitAnalyze ==
    /\ a_pc = "start"
    /\ input_kind \in {"image", "file", "none"}
    /\ document_status = "absent"
    /\ page_text = ""
    /\ concepts_data = <<>>
    /\ stored_concepts = <<>>
    /\ committed = Commit("absent", <<>>)
    /\ packets = <<>>
    /\ llm_failed = FALSE
    /\ http_status = 0
    /\ ResolveIdle
    /\ LinksIdle
    /\ TaxonomyIdle
    /\ PipelineIdle
    /\ ConnectionsIdle
    /\ ExperimentIdle

\* analyze_pdf returns StreamingResponse(generate_agent_packets()): the status
\* line is sent before the generator runs
AnalyzeRespond ==
    /\ a_pc = "start"
    /\ http_status' = 200
    /\ a_pc' = "streaming"
    /\ UNCHANGED <<input_kind, document_status, page_text, concepts_data,
                   stored_concepts, committed, packets, llm_failed,
                   notAnalyzeVars>>

\* "else:" no input provided
AnalyzeNoInput ==
    /\ a_pc = "streaming" /\ input_kind = "none"
    /\ packets' = Append(packets, Packet("SYSTEM", "INFO", "no input"))
    /\ a_pc' = "ended"
    /\ UNCHANGED <<input_kind, document_status, page_text, concepts_data,
                   stored_concepts, committed, llm_failed, http_status,
                   notAnalyzeVars>>

\* image branch: base64.b64decode raises, the inner except reports and returns
AnalyzeImageDecodeFails ==
    /\ a_pc = "streaming" /\ input_kind = "image"
    /\ packets' = Append(packets, Packet("SYSTEM", "INFO", "image error"))
    /\ a_pc' = "ended"
    /\ UNCHANGED <<input_kind, document_status, page_text, concepts_data,
                   stored_concepts, committed, llm_failed, http_status,
                   notAnalyzeVars>>

\* image branch: the document record, ROUND_START, then text = "" and the
\* "not implemented" TASK_COMPLETE and return
AnalyzeImagePlaceholder ==
    /\ a_pc = "streaming" /\ input_kind = "image"
    /\ document_status' = "processing"
    /\ committed' = Commit("processing", stored_concepts)
    /\ packets' = packets \o <<Packet("SYSTEM", "ROUND_START", "start"),
                               Packet("SYSTEM", "TASK_COMPLETE", "requires OCR")>>
    /\ a_pc' = "ended"
    /\ UNCHANGED <<input_kind, page_text, concepts_data, stored_concepts,
                   llm_failed, http_status, notAnalyzeVars>>

\* file branch, step 1 raises (open, file.read or write): the outer except
\* runs with document = None
AnalyzeSaveFails ==
    /\ a_pc = "streaming" /\ input_kind = "file"
    /\ packets' = Append(packets, Packet("SYSTEM", "INFO", "request error"))
    /\ a_pc' = "ended"
    /\ UNCHANGED <<input_kind, document_status, page_text, concepts_data,
                   stored_concepts, committed, llm_failed, http_status,
                   notAnalyzeVars>>

\* file branch, steps 1 to 3: save, document record with status
\* "processing", ROUND_START
AnalyzeCreateDocument ==
    /\ a_pc = "streaming" /\ input_kind = "file"
    /\ document_status' = "processing"
    /\ committed' = Commit("processing", stored_concepts)
    /\ packets' = Append(packets, Packet("SYSTEM", "ROUND_START", "start"))
    /\ a_pc' = "saved"
    /\ UNCHANGED <<input_kind, page_text, concepts_data, stored_concepts,
                   llm_failed, http_status, notAnalyzeVars>>

\* step 4: extract_page_text (which returns None on any failure) and
\* "if not page_text:" report and return
AnalyzeExtractText ==
    /\ a_pc = "saved"
    /\ page_text' \in {"", "text"}
    /\ IF page_text' = ""
       THEN /\ packets' = Append(packets, Packet("SYSTEM", "INFO", "no text"))
            /\ a_pc' = "ended"
       ELSE /\ packets' = packets
            /\ a_pc' = "extracting"
    /\ UNCHANGED <<input_kind, document_status, concepts_data, stored_concepts,
                   committed, llm_failed, http_status, notAnalyzeVars>>

\* process_text_extraction: llm.extract_concepts returns
AnalyzeLlmReturns ==
    /\ a_pc = "extracting"
    /\ \E data \in SeqsUpTo(ConceptDicts, MaxPageConcepts) :
          concepts_data' = FilterExcluded(data, <<>>)
    /\ a_pc' = "storing"
    /\ UNCHANGED <<input_kind, document_status, page_text, stored_concepts,
                   committed, packets, llm_failed, http_status, notAnalyzeVars>>

\* process_text_extraction: CognizantProxyLLM() or extract_concepts raises;
\* the except yields an INFO packet and returns, and the caller's "async for"
\* ends normally
AnalyzeLlmRaises ==
    /\ a_pc = "extracting"
    /\ llm_failed' = TRUE
    /\ packets' = Append(packets, Packet("SYSTEM", "INFO", "extraction error"))
    /\ a_pc' = "extracted"
    /\ UNCHANGED <<input_kind, document_status, page_text, concepts_data,
                   stored_concepts, committed, http_status, notAnalyzeVars>>

\* the outer "except Exception" of generate_agent_packets, with a document:
\* status "error", commit, INFO packet
AnalyzeFail(rows) ==
    /\ document_status' = "error"
    /\ committed' = Commit("error", rows)
    /\ packets' = Append(packets, Packet("SYSTEM", "INFO", "request error"))
    /\ a_pc' = "ended"

\* one iteration of the loop over the concepts: Concept row, GRAPH_UPDATE
\* packet, send_concept_update
AnalyzeStoreConcept ==
    /\ a_pc = "storing"
    /\ Len(stored_concepts) < Len(concepts_data)
    /\ LET concept_data == concepts_data[Len(stored_concepts) + 1]
       IN  /\ FloatAccepts(concept_data.confidence)
           /\ stored_concepts' = Append(stored_concepts, ConceptRow(concept_data, 1))
           /\ packets' = Append(packets, Packet("HARVESTER", "GRAPH_UPDATE", concept_data.term))
    /\ UNCHANGED <<a_pc, input_kind, document_status, page_text, concepts_data,
                   committed, llm_failed, http_status, notAnalyzeVars>>

\* one iteration of the loop: float() raises on the confidence; the exception
\* leaves process_text_extraction and reaches the outer except
AnalyzeConceptRaises ==
    /\ a_pc = "storing"
    /\ Len(stored_concepts) < Len(concepts_data)
    /\ ~FloatAccepts(concepts_data[Len(stored_concepts) + 1].confidence)
    /\ AnalyzeFail(stored_concepts)
    /\ UNCHANGED <<input_kind, page_text, concepts_data, stored_concepts,
                   llm_failed, http_status, notAnalyzeVars>>

\* one iteration of the loop: the row is added and its packet yielded, then
\* send_concept_update raises (broadcast_to_document iterates a set that a
\* connect changes meanwhile); the exception reaches the outer except, whose
\* commit also writes the rows added so far
AnalyzeSendRaises ==
    /\ a_pc = "storing"
    /\ Len(stored_concepts) < Len(concepts_data)
    /\ LET concept_data == concepts_data[Len(stored_concepts) + 1]
       IN  /\ FloatAccepts(concept_data.confidence)
           /\ stored_concepts' = Append(stored_concepts, ConceptRow(concept_data, 1))
           /\ document_status' = "error"
           /\ committed' = Commit("error", stored_concepts')
           /\ packets' = packets \o
                 <<Packet("HARVESTER", "GRAPH_UPDATE", concept_data.term),
                   Packet("SYSTEM", "INFO", "request error")>>
    /\ a_pc' = "ended"
    /\ UNCHANGED <<input_kind, page_text, concepts_data, llm_failed,
                   http_status, notAnalyzeVars>>

\* the loop is over: db.commit() and return to generate_agent_packets
AnalyzeCommitConcepts ==
    /\ a_pc = "storing"
    /\ Len(stored_concepts) = Len(concepts_data)
    /\ committed' = Commit(document_status, stored_concepts)
    /\ a_pc' = "extracted"
    /\ UNCHANGED <<input_kind, document_status, page_text, concepts_data,
                   stored_concepts, packets, llm_failed, http_status,
                   notAnalyzeVars>>

\* steps 6 and 7: status "completed", commit, TASK_COMPLETE
AnalyzeComplete ==
    /\ a_pc = "extracted"
    /\ document_status' = "completed"
    /\ committed' = Commit("completed", stored_concepts)
    /\ packets' = Append(packets, Packet("SYSTEM", "TASK_COMPLETE", "complete"))
    /\ a_pc' = "ended"
    /\ UNCHANGED <<input_kind, page_text, concepts_data, stored_concepts,
                   llm_failed, http_status, notAnalyzeVars>>

NextAnalyze ==
    \/ AnalyzeRespond
    \/ AnalyzeNoInput
    \/ AnalyzeImageDecodeFails
    \/ AnalyzeImagePlaceholder
    \/ AnalyzeSaveFails
    \/ AnalyzeCreateDocument
    \/ AnalyzeExtractText
    \/ AnalyzeLlmReturns
    \/ AnalyzeLlmRaises
    \/ AnalyzeStoreConcept
    \/ AnalyzeConceptRaises
    \/ AnalyzeSendRaises
    \/ AnalyzeCommitConcepts
    \/ AnalyzeComplete

SpecAnalyze == InitAnalyze /\ [][NextAnalyze]_vars

(***************************************************************************)
(* The websocket ConnectionManager: connect, disconnect and                *)
(* broadcast_to_document on one document id                                *)
(***************************************************************************)
\* Bound on the number of WebSocket objects of a run.
MaxSockets == 3

\* Bound on the number of broadcast_to_document calls of a run.
MaxBroadcasts == 2

Sockets == 1..MaxSockets

InitConnections ==
    /\ b_pc = "ready"
    /\ socket_state = [w \in Sockets |-> "new"]
    /\ has_entry = FALSE
    /\ connections = {}
    /\ iterated_live = FALSE
    /\ iter_used = 0
    /\ to_visit = {}
    /\ sending_to = 0
    /\ attempted = {}
    /\ disconnected = {}
    /\ registered = {}
    /\ broadcasts = 0
    /\ ResolveIdle
    /\ LinksIdle
    /\ TaxonomyIdle
    /\ PipelineIdle
    /\ AnalyzeIdle
    /\ ExperimentIdle

\* connect up to its await: websocket.accept() is pending
ConnectAccept(w) ==
    /\ socket_state[w] = "new"
    /\ socket_state' = [socket_state EXCEPT ![w] = "accepting"]
    /\ UNCHANGED <<b_pc, has_entry, connections, iterated_live, iter_used,
                   to_visit, sending_to, attempted, disconnected, registered,
                   broadcasts, notConnectionVars>>

\* websocket.accept() raises: connect raises before anything is registered
ConnectAcceptRaises(w) ==
    /\ socket_state[w] = "accepting"
    /\ socket_state' = [socket_state EXCEPT ![w] = "closed"]
    /\ UNCHANGED <<b_pc, has_entry, connections, iterated_live, iter_used,
                   to_visit, sending_to, attempted, disconnected, registered,
                   broadcasts, notConnectionVars>>

\* connect after its await: the entry is created if missing and the
\* connection added.  Added to the set a suspended broadcast iterates, the
\* connection lands in a slot before or behind the iterator's position.
ConnectRegister(w) ==
    /\ socket_state[w] = "accepting"
    /\ socket_state' = [socket_state EXCEPT ![w] = "open"]
    /\ has_entry' = TRUE
    /\ connections' = connections \cup {w}
    /\ IF b_pc = "sending" /\ iterated_live /\ has_entry
       THEN to_visit' \in {to_visit, to_visit \cup {w}}
       ELSE to_visit' = to_visit
    /\ UNCHANGED <<b_pc, iterated_live, iter_used, sending_to, attempted,
                   disconnected, registered, broadcasts, notConnectionVars>>

\* disconnect, called by websocket_endpoint on WebSocketDisconnect
Disconnect(w) ==
    /\ socket_state[w] = "open"
    /\ socket_state' = [socket_state EXCEPT ![w] = "closed"]
    /\ IF has_entry
       THEN /\ connections' = connections \ {w}
            /\ has_entry' = (connections' # {})
            /\ iterated_live' = (iterated_live /\ has_entry')
            /\ to_visit' = IF iterated_live THEN to_visit \ {w} ELSE to_visit
       ELSE UNCHANGED <<connections, has_entry, iterated_live, to_visit>>
    /\ UNCHANGED <<b_pc, iter_used, sending_to, attempted, disconnected,
                   registered, broadcasts, notConnectionVars>>

\* broadcast_to_document without an entry for the document: nothing to do
BroadcastNoEntry ==
    /\ b_pc \in {"ready", "returned", "raised"}
    /\ broadcasts < MaxBroadcasts
    /\ ~has_entry
    /\ broadcasts' = broadcasts + 1
    /\ b_pc' = "returned"
    /\ registered' = {}
    /\ attempted' = {}
    /\ disconnected' = {}
    /\ iterated_live' = FALSE
    /\ iter_used' = 0
    /\ to_visit' = {}
    /\ sending_to' = 0
    /\ UNCHANGED <<socket_state, has_entry, connections, notConnectionVars>>

\* broadcast_to_document up to its first await: the for loop makes the set's
\* iterator and takes its first element; over an empty set the loops do
\* nothing and the call returns
BroadcastBegin ==
    /\ b_pc \in {"ready", "returned", "raised"}
    /\ broadcasts < MaxBroadcasts
    /\ has_entry
    /\ broadcasts' = broadcasts + 1
    /\ registered' = connections
    /\ attempted' = {}
    /\ disconnected' = {}
    /\ iter_used' = Cardinality(connections)
    /\ IF connections = {}
       THEN /\ b_pc' = "returned"
            /\ iterated_live' = FALSE
            /\ to_visit' = {}
            /\ sending_to' = 0
       ELSE /\ b_pc' = "sending"
            /\ iterated_live' = TRUE
            /\ \E w \in connections :
                  /\ sending_to' = w
                  /\ to_visit' = connections \ {w}
    /\ UNCHANGED <<socket_state, has_entry, connections, notConnectionVars>>

\* the number of elements the iterated set holds now
IteratedSize == IF iterated_live THEN Cardinality(connections) ELSE 0

\* the awaited send_json returns (ok) or raises, the bare except recording the
\* connection; then the for loop asks the iterator for the next element, which
\* raises RuntimeError when the set's size differs from the size at the start
\* of the loop, outside the try.  After the last element the second loop
\* discards the recorded connections from the document's entry, a KeyError
\* without entry.
BroadcastSendEnds(ok) ==
    /\ b_pc = "sending"
    /\ attempted' = attempted \cup {sending_to}
    /\ disconnected' = IF ok THEN disconnected ELSE disconnected \cup {sending_to}
    /\ IF IteratedSize # iter_used
       THEN /\ b_pc' = "raised"
            /\ UNCHANGED <<connections, iterated_live, to_visit, sending_to>>
       ELSE IF to_visit # {}
       THEN /\ \E w \in to_visit :
                  /\ sending_to' = w
                  /\ to_visit' = to_visit \ {w}
            /\ UNCHANGED <<b_pc, connections, iterated_live>>
       ELSE IF disconnected' # {} /\ ~has_entry
       THEN /\ b_pc' = "raised"
            /\ UNCHANGED <<connections, iterated_live, to_visit, sending_to>>
       ELSE /\ b_pc' = "returned"
            /\ connections' = connections \ disconnected'
            /\ iterated_live' = FALSE
            /\ UNCHANGED <<to_visit, sending_to>>
    /\ UNCHANGED <<socket_state, has_entry, iter_used, registered, broadcasts,
                   notConnectionVars>>

NextConnections ==
    \/ \E w \in Sockets : ConnectAccept(w)
    \/ \E w \in Sockets : ConnectAcceptRaises(w)
    \/ \E w \in Sockets : ConnectRegister(w)
    \/ \E w \in Sockets : Disconnect(w)
    \/ BroadcastNoEntry
    \/ BroadcastBegin
    \/ \E ok \in BOOLEAN : BroadcastSendEnds(ok)

SpecConnections == InitConnections /\ [][NextConnections]_vars

(***************************************************************************)
(* The experiment server: LLM_PROVIDER, get_llm, experiment_prompt and     *)
(* switch_model                                                            *)
(***************************************************************************)
\* Bound on the number of requests of a run.
MaxRequests == 3

KnownProviders == {"openai", "anthropic", "google"}

\* what a client or the environment may name besides the known providers
OtherProviders == {"azure"}

\* get_llm: the provider whose client it returns, or the ValueError it raises
GetLlm(provider, keys) ==
    IF provider \notin KnownProviders THEN "unknown_provider"
    ELSE IF provider \notin keys THEN "missing_key"
    ELSE "ok"

\* ExperimentRequest.provider is Literal["openai", "anthropic", "google"] or
\* None ("none"): anything else fails validation before the handler runs
ValidRequest(provider) == provider \in KnownProviders \cup {"none"}

\* A bug that assigns the provider without looking at it.
SwitchedProviderUnchecked(provider, current) == provider

\* switch_model: LLM_PROVIDER after the call
SwitchedProvider(provider, current) ==
    IF provider \in KnownProviders THEN provider ELSE current

InitExperiment ==
    /\ e_pc = "serving"
    /\ env_provider \in KnownProviders \cup OtherProviders
    /\ LLM_PROVIDER = env_provider
    /\ api_keys \in SUBSET KnownProviders
    /\ model_env = {}
    /\ provider_before = "none"
    /\ last_request = NoRequest
    /\ last_response = NoResponse
    /\ requests = 0
    /\ ResolveIdle
    /\ LinksIdle
    /\ TaxonomyIdle
    /\ PipelineIdle
    /\ AnalyzeIdle
    /\ ConnectionsIdle

\* POST /api/v1/prompts/experiment.  llm_ok: llm.ainvoke returns.
ExperimentPrompt(provider, llm_ok) ==
    /\ e_pc = "serving"
    /\ requests < MaxRequests
    /\ requests' = requests + 1
    /\ provider_before' = LLM_PROVIDER
    /\ last_request' = [endpoint |-> "experiment_prompt", provider |-> provider]
    /\ IF ~ValidRequest(provider)
       THEN /\ last_response' = [status |-> 422, error |-> TRUE, provider |-> "none"]
            /\ UNCHANGED LLM_PROVIDER
       ELSE IF GetLlm(LLM_PROVIDER, api_keys) # "ok"
       THEN /\ last_response' = [status |-> 400, error |-> TRUE, provider |-> "none"]
            /\ UNCHANGED LLM_PROVIDER
       ELSE /\ LLM_PROVIDER' = IF provider # "none" THEN provider ELSE LLM_PROVIDER
            /\ last_response' =
                  IF GetLlm(LLM_PROVIDER', api_keys) # "ok"
                  THEN [status |-> 400, error |-> TRUE, provider |-> "none"]
                  ELSE IF ~llm_ok
                  THEN [status |-> 500, error |-> TRUE, provider |-> "none"]
                  ELSE [status |-> 200, error |-> FALSE, provider |-> LLM_PROVIDER']
    /\ UNCHANGED <<e_pc, env_provider, api_keys, model_env, notExperimentVars>>

\* POST /api/v1/models/switch.  An unknown provider is answered with the body
\* {"error": "Invalid provider"}, under HTTP status 200.
SwitchModel(provider, with_model) ==
    /\ e_pc = "serving"
    /\ requests < MaxRequests
    /\ requests' = requests + 1
    /\ provider_before' = LLM_PROVIDER
    /\ last_request' = [endpoint |-> "switch_model", provider |-> provider]
    /\ LLM_PROVIDER' = SwitchedProvider(provider, LLM_PROVIDER)
    /\ IF provider \in KnownProviders
       THEN /\ model_env' = IF with_model THEN model_env \cup {provider} ELSE model_env
            /\ last_response' = [status |-> 200, error |-> FALSE, provider |-> LLM_PROVIDER']
       ELSE /\ model_env' = model_env
            /\ last_response' = [status |-> 200, error |-> TRUE, provider |-> "none"]
    /\ UNCHANGED <<e_pc, env_provider, api_keys, notExperimentVars>>

NextExperiment ==
    \/ \E provider \in KnownProviders \cup OtherProviders \cup {"none"}, llm_ok \in BOOLEAN :
          ExperimentPrompt(provider, llm_ok)
    \/ \E provider \in KnownProviders \cup OtherProviders, with_model \in BOOLEAN :
          SwitchModel(provider, with_model)

SpecExperiment == InitExperiment /\ [][NextExperiment]_vars

(***************************************************************************)
(* Properties of the resolution passes                                     *)
(***************************************************************************)
Indices(es, K(_), key) == {i \in 1..Len(es) : K(es[i]) = key}

\* The edges of es with the given key, in order.
RECURSIVE Restrict(_, _, _)
Restrict(es, K(_), key) ==
    IF es = <<>> THEN <<>>
    ELSE (IF K(Head(es)) = key THEN <<Head(es)>> ELSE <<>>)
         \o Restrict(Tail(es), K, key)

MaxConfidence(es) ==
    CHOOSE c \in {es[i].confidence : i \in 1..Len(es)} :
        \A i \in 1..Len(es) : es[i].confidence <= c

\* C3: after contradiction resolution, every (source_id, target_id) pair whose
\* input edges disagree on predicate is left with exactly one edge, an input
\* edge of that pair with the pair's maximum confidence; the edges of a pair
\* without disagreement are all kept; nothing else is returned.
C3_ContradictionsKeepHighest ==
    r_pc = "contradictions" =>
        /\ \A i \in 1..Len(resolved_edges) : resolved_edges[i] \in Range(edges)
        /\ \A key \in {PairKey(edges[i]) : i \in 1..Len(edges)} :
              LET group == Restrict(edges, PairKey, key)
                  kept  == Restrict(resolved_edges, PairKey, key)
              IN  IF Contradictory(group)
                  THEN /\ Len(kept) = 1
                       /\ kept[1] \in Range(group)
                       /\ kept[1].confidence = MaxConfidence(group)
                  ELSE kept = group

\* The spec's example: (A,B,depends_on,0.9) and (A,B,mitigates,0.6), next to a
\* pair without disagreement.
C3_Witness ==
    /\ r_pc = "contradictions"
    /\ \E i, j, k \in 1..Len(edges) :
          /\ PairKey(edges[i]) = <<"A", "B">> /\ PairKey(edges[j]) = <<"A", "B">>
          /\ edges[i].predicate = "mitigates" /\ edges[i].confidence = 6
          /\ edges[j].predicate = "depends_on" /\ edges[j].confidence = 9
          /\ i < j
          /\ PairKey(edges[k]) = <<"A", "C">>
    /\ Len(resolved_edges) = 2

\* C4: duplicate resolution returns at most one edge per (source_id,
\* target_id, predicate) triple, every triple of the input is in the output
\* and no other, and the survivor's confidence is the maximum confidence of
\* the input edges with that triple.
C4_DuplicatesOnePerTriple ==
    r_pc = "duplicates" =>
        /\ {TripleKey(resolved_edges[i]) : i \in 1..Len(resolved_edges)}
              = {TripleKey(edges[i]) : i \in 1..Len(edges)}
        /\ \A key \in {TripleKey(edges[i]) : i \in 1..Len(edges)} :
              LET kept == Restrict(resolved_edges, TripleKey, key)
              IN  /\ Len(kept) = 1
                  /\ kept[1].confidence
                        = MaxConfidence(Restrict(edges, TripleKey, key))

\* A triple given twice with the stronger edge second, and another triple.
C4_Witness ==
    /\ r_pc = "duplicates"
    /\ \E i, j \in 1..Len(edges) :
          /\ i < j
          /\ TripleKey(edges[i]) = TripleKey(edges[j])
          /\ edges[i].confidence < edges[j].confidence
    /\ Len(resolved_edges) = 2

Orderings(n) == {p \in [1..n -> 1..n] : \A i, j \in 1..n : p[i] = p[j] => i = j}

\* C5: the set of edges that survive duplicate resolution is the same for
\* every order of arrival of the same input edges.
C5_DuplicatesOrderIndependent ==
    r_pc = "duplicates" =>
        \A p \in Orderings(Len(edges)) :
            Range(ResolveDuplicates([i \in 1..Len(edges) |-> edges[p[i]]]))
                = Range(resolved_edges)

\* C6: duplicate resolution applied to its own output returns that output:
\* the same edges in the same order.
C6_DuplicatesIdempotent ==
    r_pc = "duplicates_twice" => resolved_again = resolved_edges

\* A first pass that merged a duplicate and returned several edges.
C6_Witness ==
    /\ r_pc = "duplicates_twice"
    /\ Len(resolved_edges) = 2
    /\ Len(edges) = 3
    /\ resolved_edges[1] # edges[1]

\* C7: contradiction resolution applied to its own output returns that
\* output unchanged.
C7_ContradictionsIdempotent ==
    r_pc = "contradictions_twice" => resolved_again = resolved_edges

\* A first pass that resolved a contradiction among three edges.
C7_Witness ==
    /\ r_pc = "contradictions_twice"
    /\ Len(edges) = 3
    /\ Contradictory(edges)
    /\ Len(resolved_edges) = 1

(***************************************************************************)
(* Properties of extract_links                                             *)
(***************************************************************************)
SpansOf(es) == UNION {Range(es[i].evidence_spans) : i \in 1..Len(es)}

RoundTrips(span) ==
    Slice(document_text, span.start_char, span.end_char) = span.text

\* The nodes extract_links was given carry the document's text at their
\* offsets.
NodesMatchDocument ==
    \A n \in 1..Len(document_tree) :
        document_tree[n].text = Slice(document_text, document_tree[n].start_char,
                                      document_tree[n].end_char)

\* The edges the LLM proposed with a quote that is not the document's text at
\* the quoted offsets.
MismatchedProposals ==
    {prop \in UNION {Range(llm_responses[b]) : b \in 1..Len(llm_responses)} :
        /\ prop.evidence_text # <<>>
        /\ Slice(document_text, prop.evidence_start_char, prop.evidence_end_char)
              # prop.evidence_text}

\* C1: every evidence span of every edge extract_links returns quotes the
\* document exactly, document_text[start_char:end_char] = text, and no
\* proposed edge whose quote does not match the document at its offsets is
\* among the returned edges.
C1_EvidenceRoundTrip ==
    (l_pc = "done" /\ NodesMatchDocument) =>
        /\ \A span \in SpansOf(returned_edges) : RoundTrips(span)
        /\ \A prop \in MismatchedProposals :
              \A i \in 1..Len(returned_edges) :
                  \/ PairKey(returned_edges[i]) # <<prop.source_id, prop.target_id>>
                  \/ \A span \in Range(returned_edges[i].evidence_spans) :
                        span.text # prop.evidence_text

\* A call that returned an edge found in a section that does not start the
\* document, while the LLM proposed an edge with a mismatched quote.
C1_Witness ==
    /\ l_pc = "done"
    /\ NodesMatchDocument
    /\ \E span \in SpansOf(returned_edges) : span.start_char > 0 /\ span.section_id = "sec"
    /\ MismatchedProposals # {}

\* C2: with require_evidence set, no edge build_taxonomy returns and no edge
\* extract_links returns has an empty evidence_spans list, whatever the LLM
\* proposed.
C2_NoEmptyEvidence ==
    /\ (t_pc = "done" /\ require_evidence) =>
          \A i \in 1..Len(returned_taxonomy) : returned_taxonomy[i].evidence_spans # <<>>
    /\ l_pc = "done" =>
          \A i \in 1..Len(returned_edges) : returned_edges[i].evidence_spans # <<>>

\* A call of extract_links that returned edges although the LLM proposed an
\* edge without a quote.
C2_Witness ==
    /\ l_pc = "done"
    /\ returned_edges # <<>>
    /\ \E b \in 1..Len(llm_responses) :
          \E prop \in Range(llm_responses[b]) : prop.evidence_text = <<>>

OnePerPair(es) ==
    \A i, j \in 1..Len(es) : PairKey(es[i]) = PairKey(es[j]) => i = j

\* C8: a list that went through extract_links' post-processing, whether an
\* arbitrary merged list or the list of a call, holds at most one edge per
\* (source_id, target_id) pair.
C8_OneEdgePerPair ==
    /\ r_pc = "post_processed" => OnePerPair(resolved_edges)
    /\ l_pc = "done" => OnePerPair(returned_edges)

\* A call whose merged list held the same triple twice and a contradicting
\* edge of the same pair.
C8_Witness ==
    /\ l_pc = "done"
    /\ Len(all_edges) >= 3
    /\ Contradictory(all_edges)
    /\ \E i, j \in 1..Len(all_edges) :
          i # j /\ TripleKey(all_edges[i]) = TripleKey(all_edges[j])
    /\ Len(returned_edges) = 1

(***************************************************************************)
(* Properties of build_taxonomy                                            *)
(***************************************************************************)
PairsGenerated ==
    \/ t_pc = "proposing"
    \/ t_pc = "raised" /\ failed_batch > 0
    \/ t_pc = "done" /\ ~Truthy(seed_taxonomy)

\* The two-element sets of distinct concepts that cluster_concepts put under
\* the same key of its dict.
SameClusterSets ==
    UNION {{{a, b} : a, b \in Range(clusters[k].ids)} \ {{a} : a \in Range(clusters[k].ids)} :
             k \in 1..Len(clusters)}

\* C9: the candidate pairs are exactly the unordered pairs of two distinct
\* concepts that cluster_concepts grouped under the same key, each once: no
\* pair joins concepts of different groups, none pairs a concept with itself.
C9_PairsWithinClusters ==
    PairsGenerated =>
        /\ \A i \in 1..Len(concept_pairs) : concept_pairs[i][1] # concept_pairs[i][2]
        /\ \A i, j \in 1..Len(concept_pairs) :
              {concept_pairs[i][1], concept_pairs[i][2]}
                = {concept_pairs[j][1], concept_pairs[j][2]} => i = j
        /\ {{concept_pairs[i][1], concept_pairs[i][2]} : i \in 1..Len(concept_pairs)}
              = SameClusterSets

\* Two clusters of at least two concepts each, one of them of three.
C9_Witness ==
    /\ t_pc = "proposing"
    /\ \E k, m \in 1..Len(clusters) :
          /\ clusters[k].label = 0 /\ clusters[m].label = 1
          /\ Len(clusters[k].ids) >= 3 /\ Len(clusters[m].ids) >= 2
    /\ Len(concept_pairs) >= 4

\* C10: when the LLM call raises for batch 2 of 3 in taxonomy building, the
\* run does not abort and exactly one validation error is recorded for the
\* failed batch.
C10_BatchFailureContained ==
    (failed_batch = 2 /\ NumBatches(Len(concept_pairs), PairBatchSize) = 3) =>
        /\ t_pc # "raised"
        /\ Len(validation_errors) = 1

(***************************************************************************)
(* Properties of run_pipeline and validate_output                          *)
(***************************************************************************)
\* the run has passed the validation pass, which was enabled
Validated == p_pc \in {"validated", "done"} /\ validate_schema

BelowThreshold(es) == {i \in DOMAIN es : es[i].confidence < min_confidence}

WithoutEvidence(es) == {i \in DOMAIN es : es[i].evidence_spans = <<>>}

Occurrences(errors, diagnostic) ==
    Cardinality({i \in DOMAIN errors : errors[i] = diagnostic})

\* C12: validate_output returns exactly one diagnostic per violation: per
\* taxonomy or KG edge without evidence spans when require_evidence is set
\* (none when it is not), plus one per edge with confidence < min_confidence
\* (none at confidence = min_confidence); the edge lists stay as they were.
C12_OneDiagnosticPerViolation ==
    Validated =>
        LET errors == output.validation_errors
            tax == output.taxonomy_edges
            kg == output.kg_edges
            ids == {"c1", "c2"}
            TaxAt(S, a, b) == {i \in S : tax[i].parent_id = a /\ tax[i].child_id = b}
            KgAt(S, a, b) == {i \in S : kg[i].source_id = a /\ kg[i].target_id = b}
            evidence_checked(S) == IF pipeline_require_evidence THEN S ELSE {}
        IN  /\ tax = run_taxonomy_edges
            /\ kg = run_kg_edges
            /\ Len(errors) =
                  Cardinality(evidence_checked(WithoutEvidence(tax)))
                  + Cardinality(evidence_checked(WithoutEvidence(kg)))
                  + Cardinality(BelowThreshold(tax))
                  + Cardinality(BelowThreshold(kg))
            /\ \A a \in ids, b \in ids :
                  /\ Occurrences(errors, Diagnostic("Taxonomy", a, b, "missing evidence"))
                        = Cardinality(TaxAt(evidence_checked(WithoutEvidence(tax)), a, b))
                  /\ Occurrences(errors, Diagnostic("KG", a, b, "missing evidence"))
                        = Cardinality(KgAt(evidence_checked(WithoutEvidence(kg)), a, b))
                  /\ Occurrences(errors, Diagnostic("Taxonomy", a, b, "below confidence threshold"))
                        = Cardinality(TaxAt(BelowThreshold(tax), a, b))
                  /\ Occurrences(errors, Diagnostic("KG", a, b, "below confidence threshold"))
                        = Cardinality(KgAt(BelowThreshold(kg), a, b))

\* validation ran, with evidence required, over an edge at the threshold, an
\* edge below it and an edge without evidence
C12_Witness ==
    /\ p_pc = "validated" /\ validate_schema /\ pipeline_require_evidence
    /\ \E i \in DOMAIN output.taxonomy_edges :
          output.taxonomy_edges[i].confidence = min_confidence
    /\ BelowThreshold(output.kg_edges) # {}
    /\ WithoutEvidence(output.taxonomy_edges) # {}
    /\ Len(output.validation_errors) >= 2

\* C13: in the output run_pipeline returns, no taxonomy or KG edge has a
\* confidence below min_confidence, and every edge a stage produced below it
\* is reported in validation_errors.
C13_LowConfidenceExcluded ==
    p_pc = "done" =>
        /\ BelowThreshold(output.taxonomy_edges) = {}
        /\ BelowThreshold(output.kg_edges) = {}
        /\ (BelowThreshold(run_taxonomy_edges) # {} \/ BelowThreshold(run_kg_edges) # {})
              => output.validation_errors # <<>>

SummaryKeys(summary) == {summary[i].key : i \in DOMAIN summary}

SummaryValue(summary, key) ==
    summary[CHOOSE i \in DOMAIN summary : summary[i].key = key].value

\* the confidences of es[1..n] added up
RECURSIVE TotalConfidence(_, _)
TotalConfidence(es, n) ==
    IF n = 0 THEN 0 ELSE TotalConfidence(es, n - 1) + es[n].confidence

\* value is the arithmetic mean of the confidences of es
IsMeanOf(value, es) ==
    /\ value.den > 0
    /\ value.num * Len(es) = TotalConfidence(es, Len(es)) * value.den

\* C14: in the returned output, confidence_summary has kg_avg iff kg_edges is
\* non-empty and taxonomy_avg iff taxonomy_edges is non-empty; a key that is
\* present holds the mean of the confidences; no key is present for an empty
\* collection.
C14_SummaryKeysAndMeans ==
    p_pc = "done" =>
        LET summary == output.confidence_summary
        IN  /\ SummaryKeys(summary) \subseteq {"taxonomy_avg", "kg_avg"}
            /\ Cardinality(SummaryKeys(summary)) = Len(summary)
            /\ "taxonomy_avg" \in SummaryKeys(summary) <=> output.taxonomy_edges # <<>>
            /\ "kg_avg" \in SummaryKeys(summary) <=> output.kg_edges # <<>>
            /\ "taxonomy_avg" \in SummaryKeys(summary) =>
                  IsMeanOf(SummaryValue(summary, "taxonomy_avg"), output.taxonomy_edges)
            /\ "kg_avg" \in SummaryKeys(summary) =>
                  IsMeanOf(SummaryValue(summary, "kg_avg"), output.kg_edges)

\* a run returned with two taxonomy edges of different confidence and no KG
\* edge
C14_Witness ==
    /\ p_pc = "done"
    /\ output.kg_edges = <<>>
    /\ Len(output.taxonomy_edges) = 2
    /\ output.taxonomy_edges[1].confidence # output.taxonomy_edges[2].confidence
    /\ SummaryKeys(output.confidence_summary) = {"taxonomy_avg"}

\* position of a statement in the order concept registry, taxonomy, links,
\* validation, confidence summary
StageRank(pc) ==
    CASE pc = "start"     -> 0
      [] pc = "tree"      -> 1
      [] pc = "concepts"  -> 2
      [] pc = "taxonomy"  -> 3
      [] pc = "links"     -> 4
      [] pc = "created"   -> 5
      [] pc = "validated" -> 6
      [] pc = "done"      -> 7
      [] OTHER            -> 8

\* C15: the stages of a run execute in the order concept registry, taxonomy,
\* links, validation, confidence summary, each after the previous one has
\* completed; the taxonomy and the link stage receive the completed concept
\* registry; no stage changes the document tree or the collection of an
\* earlier stage.
C15_StagesInOrder ==
    [][ /\ p_pc' # p_pc =>
              \/ p_pc' = "raised"
              \/ StageRank(p_pc') = StageRank(p_pc) + 1
        /\ p_pc' = "taxonomy" =>
              StageRank(p_pc) >= 2 /\ stage_input'.taxonomy = run_concept_registry
        /\ p_pc' = "links" =>
              StageRank(p_pc) >= 2 /\ stage_input'.links = run_concept_registry
        /\ StageRank(p_pc) >= 1 => run_document_tree' = run_document_tree
        /\ StageRank(p_pc) >= 2 => run_concept_registry' = run_concept_registry
        /\ StageRank(p_pc) >= 3 => run_taxonomy_edges' = run_taxonomy_edges
        /\ StageRank(p_pc) >= 4 => run_kg_edges' = run_kg_edges
        /\ StageRank(p_pc') \in 5..7 =>
              /\ output'.document_tree = run_document_tree
              /\ output'.concept_registry = run_concept_registry
              /\ output'.taxonomy_edges = run_taxonomy_edges
              /\ output'.kg_edges = run_kg_edges
      ]_vars

\* a run returned after every stage produced something
C15_Witness ==
    /\ p_pc = "done"
    /\ run_document_tree # <<>>
    /\ run_concept_registry # <<>>
    /\ stage_input.taxonomy = run_concept_registry
    /\ stage_input.links = run_concept_registry
    /\ run_taxonomy_edges # <<>>
    /\ run_kg_edges # <<>>

\* the pairs (a, b) with a path of at least one parent-to-child edge from a to b
RECURSIVE PathsWithin(_, _)
PathsWithin(es, k) ==
    LET step == {<<es[i].parent_id, es[i].child_id>> : i \in DOMAIN es}
    IN  IF k <= 1 THEN step
        ELSE LET shorter == PathsWithin(es, k - 1)
             IN  shorter \cup
                 {<<pq[1][1], pq[2][2]>> :
                     pq \in {x \in shorter \X step : x[1][2] = x[2][1]}}

HasCycle(es) == \E p \in PathsWithin(es, Len(es)) : p[1] = p[2]

\* C18: when the taxonomy edges of a run contain a parent-to-child cycle, a
\* self-loop included, the validation pass records a diagnostic for it in
\* validation_errors.
C18_CycleReported ==
    (Validated /\ HasCycle(output.taxonomy_edges)) =>
        \E i \in DOMAIN output.validation_errors :
            output.validation_errors[i][7]
                \notin {"missing evidence", "below confidence threshold"}

(***************************************************************************)
(* The worked example of pattern extraction                                *)
(***************************************************************************)
\* the edge has exactly one evidence span, which quotes the document at its
\* offsets
OneQuotingSpan(edge) ==
    /\ Len(edge.evidence_spans) = 1
    /\ RoundTrips(edge.evidence_spans[1])

\* C16: on the one-node document "GDPR requires data protection. Data
\* protection mitigates Risk." with GDPR, data protection and Risk registered,
\* pattern-only link extraction returns exactly the two edges (GDPR, data
\* protection, requires) and (data protection, Risk, mitigates), each with
\* one evidence span quoting the matched text and with the pattern-extraction
\* confidence.
C16_ExampleTwoEdges ==
    (l_pc = "done" /\ document_text = ExampleText) =>
        /\ Len(returned_edges) = 2
        /\ {TripleKey(returned_edges[i]) : i \in DOMAIN returned_edges} =
              { <<ExampleGdpr.canonical_id, ExampleDataProtection.canonical_id, "requires">>,
                <<ExampleDataProtection.canonical_id, ExampleRisk.canonical_id, "mitigates">> }
        /\ \A i \in DOMAIN returned_edges :
              /\ OneQuotingSpan(returned_edges[i])
              /\ returned_edges[i].confidence = OpenIEConfidence

(***************************************************************************)
(* Properties of the proposals of the external proposer                    *)
(***************************************************************************)
\* the proposals the LLM made for the pairs of the call
TaxonomyProposed ==
    UNION {Range(taxonomy_responses[b]) : b \in DOMAIN taxonomy_responses}

RelationsProposed ==
    UNION {Range(llm_responses[b]) : b \in DOMAIN llm_responses}

C20_LlmFailureMarksError ==
    (a_pc = "ended" /\ input_kind = "file" /\ llm_failed) =>
        /\ document_status = "error"
        /\ committed.status = "error"

(***************************************************************************)
(* Properties of pattern-based extraction                                  *)
(***************************************************************************)
EqualIgnoringCase(a, b) ==
    /\ Len(a) = Len(b)
    /\ \A i \in 1..Len(a) : Lower(a[i]) = Lower(b[i])

\* the first and the last word of a matched text: what the two groups of the
\* pattern captured
FirstWord(matched) == SubSeq(matched, 1, WordRunEnd(matched, 1) - 1)

LastWord(matched) ==
    LET starts == {p \in 1..Len(matched) : \A q \in p..Len(matched) : IsWordChar(matched[q])}
    IN  SubSeq(matched, Min(starts), Len(matched))

\* id is what the captured text maps to: the canonical_id of an entry whose
\* term equals it ignoring case if there is one, else the text itself
MappedTo(id, captured, registry) ==
    LET matching == {i \in DOMAIN registry :
                        EqualIgnoringCase(registry[i].canonical_term, captured)}
    IN  IF matching # {}
        THEN \E i \in matching : id = registry[i].canonical_id
        ELSE id = captured

\* the pattern-based edges of the call, once the pattern pass is over
PatternEdges == IF l_pc = "openie" THEN all_edges ELSE <<>>

\* C21: the subject and the object of every pattern-based triple are the
\* canonical_id of the registry entry whose canonical_term equals the captured
\* text ignoring case when there is such an entry, and the captured text
\* itself otherwise.
C21_TriplesMappedToRegistry ==
    \A i \in DOMAIN PatternEdges :
        LET edge == PatternEdges[i]
            matched == edge.evidence_spans[1].text
        IN  /\ MappedTo(edge.source_id, FirstWord(matched), concept_registry)
            /\ MappedTo(edge.target_id, LastWord(matched), concept_registry)

\* the pattern pass produced an edge whose subject, written in another case
\* than the registry's term, became an id and whose object stayed free text
C21_Witness ==
    \E i \in DOMAIN PatternEdges :
        LET edge == PatternEdges[i]
            matched == edge.evidence_spans[1].text
        IN  /\ edge.source_id = ConceptA.canonical_id
            /\ FirstWord(matched) # ConceptA.canonical_term
            /\ edge.target_id = LastWord(matched)

(***************************************************************************)
(* Properties of cold-start taxonomy building                              *)
(***************************************************************************)
\* the concepts the clustering step labelled as noise (label -1)
NoiseConcepts ==
    UNION {Range(clusters[k].ids) : k \in {j \in DOMAIN clusters : clusters[j].label = -1}}

\* C22: a concept the clustering step marks as noise is in no candidate pair,
\* also when several concepts are marked as noise in the same run.
C22_NoiseInNoPair ==
    \A i \in DOMAIN concept_pairs :
        concept_pairs[i][1] \notin NoiseConcepts /\ concept_pairs[i][2] \notin NoiseConcepts

\* C23: whenever a seed is supplied, an empty one included, build_taxonomy
\* runs expansion and neither clusters nor proposes pairs; without a seed it
\* runs the cold start, which clusters the concepts.
C23_ModeBySeedPresence ==
    /\ ~seed_taxonomy.is_none =>
          /\ t_pc \in {"start", "done"}
          /\ clusters = <<>> /\ concept_pairs = <<>> /\ pair_batch = 0
    /\ (seed_taxonomy.is_none /\ t_pc = "done" /\ taxonomy_registry # <<>>) =>
          clusters # <<>>

\* the batches a run with the given batch size cuts the pairs into
BatchesOf(pairs, size) ==
    [b \in 1..NumBatches(Len(pairs), size) |-> BatchOf(pairs, b - 1, size)]

\* a proposer that answers pair by pair: one proposal for each pair of the batch
PairwiseResponse(batch) == [i \in DOMAIN batch |-> TaxonomyProposal(batch[i], TRUE)]

\* the edges propose_taxonomy_relations returns with that proposer and the
\* given batch size
ProposeWith(pairs, size) ==
    Flatten([b \in DOMAIN BatchesOf(pairs, size) |->
        ParseTaxonomyResponse(PairwiseResponse(BatchesOf(pairs, size)[b]),
                              taxonomy_registry)])

\* the loop of propose_taxonomy_relations has run to its end
AllBatchesProposed ==
    /\ t_pc \in {"proposing", "done"}
    /\ pair_batch = NumBatches(Len(concept_pairs), PairBatchSize)

\* C24: every candidate pair is submitted in exactly one batch of at most
\* PairBatchSize pairs, the batches follow the input order, the result is the
\* concatenation of the per-batch results in batch order, and cutting the
\* pairs with any other batch size submits the same pairs in the same order,
\* so that a proposer answering pair by pair returns the same edges.
C24_BatchesPartitionPairs ==
    /\ \A b \in DOMAIN taxonomy_prompts :
          Len(taxonomy_prompts[b]) \in 1..PairBatchSize
    /\ Flatten(taxonomy_prompts) =
          Slice(concept_pairs, 0, pair_batch * PairBatchSize)
    /\ AllBatchesProposed => Flatten(taxonomy_prompts) = concept_pairs
    /\ taxonomy_edges = Flatten([b \in DOMAIN taxonomy_responses |->
          ParseTaxonomyResponse(taxonomy_responses[b], taxonomy_registry)])
    /\ \A size \in 1..(PairBatchSize + 1) :
          /\ Flatten(BatchesOf(concept_pairs, size)) = concept_pairs
          /\ ProposeWith(concept_pairs, size) =
                ProposeWith(concept_pairs, PairBatchSize)

C24_Witness ==
    /\ AllBatchesProposed
    /\ Len(taxonomy_prompts) = 2
    /\ Len(taxonomy_prompts[1]) = PairBatchSize
    /\ Len(concept_pairs) > PairBatchSize

(***************************************************************************)
(* Ties and the merge of the two extractors                                *)
(***************************************************************************)
\* the first edge of the group that has the group's maximum confidence
FirstMaximal(group) ==
    group[Min({i \in 1..Len(group) : group[i].confidence = MaxConfidence(group)})]

\* the group's maximum confidence is reached by an edge of either extractor
TiedAcrossExtractors(group) ==
    \A x \in {"openie", "llm"} :
        \E i \in 1..Len(group) :
            group[i].extracted_by = x /\ group[i].confidence = MaxConfidence(group)

\* C25: of the contradictory edges of one pair that tie on the maximum
\* confidence, contradiction resolution keeps the first of the input list; in
\* extract_links, where the pattern-based edges come first, a tie between the
\* two extractors leaves the pattern-based edge.
C25_TieKeepsFirst ==
    /\ r_pc = "contradictions" =>
          \A key \in {PairKey(edges[i]) : i \in 1..Len(edges)} :
              LET group == Restrict(edges, PairKey, key)
              IN  Contradictory(group) =>
                      Restrict(resolved_edges, PairKey, key) = <<FirstMaximal(group)>>
    /\ r_pc = "merged" =>
          \A key \in {PairKey(edges[i]) : i \in 1..Len(edges)} :
              LET group == Restrict(MergedEdges(edges), PairKey, key)
                  kept  == Restrict(resolved_edges, PairKey, key)
              IN  (Contradictory(group) /\ TiedAcrossExtractors(group)) =>
                      /\ Len(kept) = 1
                      /\ kept[1].extracted_by = "openie"
                      /\ kept[1].confidence = MaxConfidence(group)

\* Two contradictory edges of one pair with the same confidence, the schema-
\* based one produced first, resolved by extract_links.
C25_Witness ==
    /\ r_pc = "merged"
    /\ Len(edges) = 2
    /\ PairKey(edges[1]) = PairKey(edges[2])
    /\ edges[1].predicate # edges[2].predicate
    /\ edges[1].confidence = edges[2].confidence
    /\ edges[1].extracted_by = "llm" /\ edges[2].extracted_by = "openie"
    /\ resolved_edges = <<edges[2]>>

\* C26: post-processing the pattern-based edges followed by the pre-resolved
\* schema-based edges returns the same list as post-processing once the
\* pattern-based edges followed by the schema-based edges.
C26_PreResolvingChangesNothing ==
    r_pc = "merged" =>
        resolved_edges =
            PostProcess(ExtractedBy(edges, "openie") \o ExtractedBy(edges, "llm"))

\* Two schema-based edges of which the pre-resolution drops one, next to a
\* pattern-based edge of the same pair.
C26_Witness ==
    /\ r_pc = "merged"
    /\ Len(ExtractedBy(edges, "openie")) = 1
    /\ Len(ExtractedBy(edges, "llm")) = 2
    /\ Len(MergedEdges(edges)) = 2
    /\ Cardinality({PairKey(edges[i]) : i \in 1..Len(edges)}) = 1
    /\ Len(resolved_edges) = 1

(***************************************************************************)
(* Properties of the websocket ConnectionManager                           *)
(***************************************************************************)
\* C27: a document id present in active_connections maps to a non-empty set.
C27_NoEmptyEntry == has_entry => connections # {}

\* connections whose websocket_endpoint has not called disconnect
StillOpen == {w \in DOMAIN socket_state : socket_state[w] = "open"}

\* C28: a broadcast never fails, whatever connects or disconnects while it is
\* suspended; when it has returned, send_json was called on every connection
\* that was registered at its start and has not disconnected since, also
\* behind a failed send, and the connections it removed are exactly those
\* whose send failed.
C28_BroadcastReachesAll ==
    /\ b_pc # "raised"
    /\ b_pc = "returned" =>
          /\ (registered \cap StillOpen) \subseteq attempted
          /\ disconnected \cap connections = {}
          /\ (attempted \cap StillOpen) \ disconnected \subseteq connections

(***************************************************************************)
(* Properties of the analyze request's document record                     *)
(***************************************************************************)
\* C29: once the response stream of a request that created a document record
\* has ended, the record's status is "completed" or "error", in memory and in
\* the database, and no longer "processing".
C29_EndsInTerminalStatus ==
    (a_pc = "ended" /\ document_status # "absent") =>
        /\ document_status \in {"completed", "error"}
        /\ committed.status \in {"completed", "error"}

(***************************************************************************)
(* Properties of the experiment server's provider selection                *)
(***************************************************************************)
\* the last request named a provider that is none of the known ones
NamedUnknownProvider ==
    last_request.provider \notin KnownProviders \cup {"none"}

\* a request naming an unknown provider is answered with an error and leaves
\* LLM_PROVIDER as it was
UnknownProviderRejected ==
    NamedUnknownProvider =>
        /\ last_response.error
        /\ LLM_PROVIDER = provider_before

\* C30, as stated: LLM_PROVIDER is one of openai, anthropic, google after any
\* sequence of requests, and a request naming an unknown provider is answered
\* with an error and leaves it unchanged.
C30_ProviderAlwaysKnown ==
    (e_pc = "serving" /\ requests > 0) =>
        /\ LLM_PROVIDER \in KnownProviders
        /\ UnknownProviderRejected

\* C30, amended: LLM_PROVIDER is a known provider or still the value the
\* environment gave it at start, so it is always known when the start value
\* is; a request naming an unknown provider is answered with an error and
\* leaves it unchanged; once known it stays known.
C30_ProviderKnownOrFromEnvironment ==
    e_pc = "serving" =>
        /\ LLM_PROVIDER \in KnownProviders \cup {env_provider}
        /\ env_provider \in KnownProviders => LLM_PROVIDER \in KnownProviders
        /\ (requests > 0 /\ provider_before \in KnownProviders) =>
              LLM_PROVIDER \in KnownProviders
        /\ UnknownProviderRejected

\* switch_model was asked for an unknown provider after another provider than
\* the start value had been selected.
C30_Witness ==
    /\ e_pc = "serving"
    /\ last_request = [endpoint |-> "switch_model", provider |-> "azure"]
    /\ last_response.error
    /\ LLM_PROVIDER \in KnownProviders
    /\ LLM_PROVIDER # env_provider
    /\ LLM_PROVIDER = provider_before

=============================================================================
